---- MODULE Spec2Model ----
\* Verification model of wamp-core: the frame codec (per-type Serialize /
\* Deserialize), the tagged dispatch (Deserialize for Messages, Messages::id)
\* and the request-id generator (factories::increment).
EXTENDS Integers, Sequences, FiniteSets, TLC

VARIABLES
    msg,        \* the in-memory message handed to a serializer
    encoded,    \* result of the last serialize call
    attempt,    \* the message type a frame is decoded as (from_str::<T>)
    wire,       \* the frame (Vec<Value>) handed to a deserializer
    decoded,    \* result of the last per-type deserialize call
    parsed,     \* result of the last Messages::deserialize call
    ident,      \* result of the last Messages::id call
    reencoded,  \* result of serializing the message a peer decoded
    NUMBER,     \* factories.rs: static NUMBER: RwLock<u64>
    readers,    \* threads holding NUMBER's read lock
    writer,     \* thread holding NUMBER's write lock (0 = none)
    pc,         \* per thread: position inside increment()
    previous,   \* per thread: the local `previous` of increment()
    calls,      \* per thread: number of increment() calls started
    returned,   \* values returned by increment(), in completion order
    peer_role,  \* the role a direction is looked up for
    message_direction,  \* result of the last T::direction(role) call
    TOPICS,     \* factories.rs: static TOPICS: RwLock<Vec<String>>
    topic_calls,    \* the calls made on the topic registry, in order
    conversion  \* the call of <T as From<Messages>>::from under way

vars == <<msg, encoded, attempt, wire, decoded, parsed, ident, reencoded,
          NUMBER, readers, writer, pc, previous, calls, returned,
          peer_role, message_direction, TOPICS, topic_calls, conversion>>

codecVars == <<msg, encoded, attempt, wire, decoded, parsed, ident,
               reencoded>>
counterVars == <<NUMBER, readers, writer, pc, previous, calls, returned>>
matrixVars == <<peer_role, message_direction>>
registryVars == <<TOPICS, topic_calls>>
conversionVars == <<conversion>>

----------------------------------------------------------------------------
\* Bounds of the model.

\* request ids, session ids, subscription ids ... range over 1..MaxId
MaxId == 1
\* strings (URIs, realms, reasons ...) are identified by an index 1..MaxStr
MaxStr == 1
\* arrays and objects are identified by their content: 0 is the empty
\* container, 1..MaxContent are distinct non-empty ones
MaxContent == 1
\* threads calling increment() concurrently
MaxThreads == 3
\* increment() calls issued by each thread
MaxCalls == 2
\* elements a frame may carry beyond those its decoder reads
MaxExtra == 0
\* messages built by the constructor macros in one run
MaxBuilt == 3
\* topics are identified by an index 1..MaxTopics
MaxTopics == 2
\* calls made on the topic registry in one run
MaxTopicCalls == 4
\* stack frames a thread has room for
MaxStack == 3

----------------------------------------------------------------------------
\* serde_json::Value, by JSON kind.

Null == [k |-> "null", v |-> 0]
U(n) == [k |-> "uint", v |-> n]
Neg(n) == [k |-> "neg", v |-> n]
Str(s) == [k |-> "str", v |-> s]
Arr(c) == [k |-> "arr", v |-> c]
Obj(c) == [k |-> "obj", v |-> c]

is_null(v) == v.k = "null"
is_array(v) == v.k = "arr"
is_object(v) == v.k = "obj"
as_u64(v) == IF v.k = "uint" THEN <<v.v>> ELSE <<>>

\* Result<T, E>: val is meaningful only when ok, err only when not ok.
NoErr == [kind |-> "none", msg |-> "", actual |-> 0, expected |-> 0]
Ok(v) == [ok |-> TRUE, val |-> v, err |-> NoErr]
Fail(e) == [ok |-> FALSE, val |-> 0, err |-> e]
Custom(kind, m) == [kind |-> kind, msg |-> m, actual |-> 0, expected |-> 0]
None == [ok |-> FALSE, val |-> 0, err |-> Custom("unset", "")]
IsSet(r) == r.err.kind # "unset"

----------------------------------------------------------------------------
\* WampMessage::ID of every message type.

Hello_ID == 1
Welcome_ID == 2
Abort_ID == 3
Challenge_ID == 4
Authenticate_ID == 5
Goodbye_ID == 6
WampError_ID == 8
Publish_ID == 16
Published_ID == 17
Subscribe_ID == 32
Subscribed_ID == 33
Unsubscribe_ID == 34
Unsubscribed_ID == 35
Event_ID == 36
Call_ID == 48
Cancel_ID == 49
WampResult_ID == 50
Register_ID == 64
Registered_ID == 65
Unregister_ID == 66
Unregistered_ID == 67
Invocation_ID == 68
Interrupt_ID == 69
Yield_ID == 70

\* messages/error.rs: enum WampErrorEvent, #[repr(u64)]
WampErrorEvents ==
    {"Unsubscribe", "Subscribe", "Publish", "Register", "Unregister",
     "Invocation", "Cancel", "Call"}

WampErrorEvent_repr(event) ==
    CASE event = "Unsubscribe" -> Unsubscribe_ID
      [] event = "Subscribe" -> Subscribe_ID
      [] event = "Publish" -> Publish_ID
      [] event = "Register" -> Register_ID
      [] event = "Unregister" -> Unregister_ID
      [] event = "Invocation" -> Invocation_ID
      [] event = "Cancel" -> Cancel_ID
      [] event = "Call" -> Call_ID

----------------------------------------------------------------------------
\* messages::helpers

\* a next_element that takes any unsigned integer for an error event
next_element_lenient(seq, pos, T) ==
    IF pos > Len(seq) THEN Ok(<<>>)
    ELSE LET e == seq[pos] IN
         CASE T = "u64" -> IF e.k = "uint" THEN Ok(<<e.v>>)
                           ELSE Fail(Custom("InvalidType", "expected u64"))
           [] T = "String" -> IF e.k = "str" THEN Ok(<<e.v>>)
                              ELSE Fail(Custom("InvalidType", "expected a string"))
           [] T = "WampErrorEvent" ->
                IF e.k # "uint" THEN Fail(Custom("InvalidType", "expected u64"))
                ELSE IF \E event \in WampErrorEvents : WampErrorEvent_repr(event) = e.v
                     THEN Ok(<<CHOOSE event \in WampErrorEvents :
                                   WampErrorEvent_repr(event) = e.v>>)
                     ELSE Ok(<<"Call">>)
           [] OTHER -> Ok(<<e>>)

\* seq.next_element::<T>(): None past the end, a serde type error when the
\* element is not a T, the typed element otherwise.
next_element(seq, pos, T) ==
    IF pos > Len(seq) THEN Ok(<<>>)
    ELSE LET e == seq[pos] IN
         CASE T = "u64" -> IF e.k = "uint" THEN Ok(<<e.v>>)
                           ELSE Fail(Custom("InvalidType", "expected u64"))
           [] T = "String" -> IF e.k = "str" THEN Ok(<<e.v>>)
                              ELSE Fail(Custom("InvalidType", "expected a string"))
           [] T = "WampErrorEvent" ->
                IF e.k # "uint" THEN Fail(Custom("InvalidType", "expected u64"))
                ELSE IF \E event \in WampErrorEvents : WampErrorEvent_repr(event) = e.v
                     THEN Ok(<<CHOOSE event \in WampErrorEvents :
                                   WampErrorEvent_repr(event) = e.v>>)
                     ELSE Fail(Custom("InvalidValue", "invalid value for WampErrorEvent"))
           [] OTHER -> Ok(<<e>>)

\* a decoder that reports an exhausted frame as a shape violation
deser_seq_element_conflated(seq, pos, T, error) ==
    LET element == next_element(seq, pos, T) IN
    IF ~element.ok THEN element
    ELSE IF element.val # <<>> THEN Ok(element.val[1])
    ELSE Fail(Custom("ShapeViolation", error))

deser_seq_element(seq, pos, T, error) ==
    LET element == next_element(seq, pos, T) IN
    IF ~element.ok THEN element
    ELSE IF element.val # <<>> THEN Ok(element.val[1])
    ELSE Fail(Custom("MissingField", error))

\* a decoder that fills an absent args or kwargs with an empty array
deser_args_kwargs_element_defaulting(seq, pos, error) ==
    LET element == next_element(seq, pos, "Value") IN
    IF ~element.ok THEN element
    ELSE IF element.val # <<>>
         THEN IF is_object(element.val[1]) \/ is_array(element.val[1])
              THEN Ok(element.val[1])
              ELSE Fail(Custom("ShapeViolation", error))
         ELSE Ok(Arr(0))

deser_args_kwargs_element(seq, pos, error) ==
    LET element == next_element(seq, pos, "Value") IN
    IF ~element.ok THEN element
    ELSE IF element.val # <<>>
         THEN IF is_object(element.val[1]) \/ is_array(element.val[1])
              THEN Ok(element.val[1])
              ELSE Fail(Custom("ShapeViolation", error))
         ELSE Ok(Null)

\* a decoder that reads the tag without comparing it
validate_id_unchecked(M_ID, id, name) == Ok(0)

validate_id(M_ID, id, name) ==
    IF M_ID = id THEN Ok(0)
    ELSE Fail([kind |-> "TagMismatch", msg |-> name, actual |-> id, expected |-> M_ID])

deser_value_is_object(v, e) ==
    IF is_object(v) THEN Ok(0) ELSE Fail(Custom("ShapeViolation", e))

ser_value_is_object(v, e) ==
    IF is_object(v) THEN Ok(v) ELSE Fail(Custom("ShapeViolation", e))

\* an args check that lets every value through
ser_value_is_args_unchecked(v, e) == Ok(v)

ser_value_is_args(v, e) ==
    IF is_array(v) \/ is_null(v) THEN Ok(v) ELSE Fail(Custom("ShapeViolation", e))

ser_value_is_kwargs(v, e) ==
    IF is_object(v) \/ is_null(v) THEN Ok(v) ELSE Fail(Custom("ShapeViolation", e))

\* deserializer.deserialize_struct(name, fields, visitor): serde_json hands
\* the array to visit_seq and rejects elements the visitor left unread.
deserialize_struct(r, seq, nfields) ==
    IF r.ok /\ Len(seq) > nfields
    THEN Fail(Custom("InvalidLength", "trailing elements"))
    ELSE r

----------------------------------------------------------------------------
\* Per-type Serialize / Deserialize implementations.

\* Number of frame elements (tag included) that T's visit_seq reads before
\* the optional args and kwargs.
Required(T) ==
    CASE T = "Hello" -> 3
      [] T = "Welcome" -> 3
      [] T = "Abort" -> 3
      [] T = "Challenge" -> 3
      [] T = "Authenticate" -> 3
      [] T = "Goodbye" -> 3
      [] T = "WampError" -> 5
      [] T = "Publish" -> 4
      [] T = "Published" -> 3
      [] T = "Subscribe" -> 4
      [] T = "Subscribed" -> 3
      [] T = "Unsubscribe" -> 3
      [] T = "Unsubscribed" -> 2
      [] T = "Event" -> 4
      [] T = "Call" -> 4
      [] T = "Cancel" -> 3
      [] T = "WampResult" -> 3
      [] T = "Register" -> 4
      [] T = "Registered" -> 3
      [] T = "Unregister" -> 3
      [] T = "Unregistered" -> 2
      [] T = "Invocation" -> 4
      [] T = "Interrupt" -> 3
      [] T = "Yield" -> 3

\* The message types whose frames end with the optional args and kwargs.
PayloadTypes ==
    {"WampError", "Publish", "Event", "Call", "WampResult", "Invocation", "Yield"}

\* Number of frame elements T's visit_seq reads at most.
Elements(T) == IF T \in PayloadTypes THEN Required(T) + 2 ELSE Required(T)

\* messages/hello.rs
\* an encoder that emits details before realm
Hello_serialize_swapped(m) ==
    LET details == ser_value_is_object(m.details, "Details must be object like.") IN
    IF ~details.ok THEN details
    ELSE Ok(<<U(Hello_ID), details.val, Str(m.realm)>>)

Hello_serialize(m) ==
    LET details == ser_value_is_object(m.details, "Details must be object like.") IN
    IF ~details.ok THEN details
    ELSE Ok(<<U(Hello_ID), Str(m.realm), details.val>>)

Hello_visit_seq(seq) ==
    LET message_id == deser_seq_element(seq, 1, "u64", "Message ID must be type u8.") IN
    IF ~message_id.ok THEN message_id ELSE
    LET tag == validate_id(Hello_ID, message_id.val, "Hello") IN
    IF ~tag.ok THEN tag ELSE
    LET realm == deser_seq_element(seq, 2, "String", "realm must be a String.") IN
    IF ~realm.ok THEN realm ELSE
    LET details == deser_seq_element(seq, 3, "Value", "Details must be a JSON value.") IN
    IF ~details.ok THEN details ELSE
    LET shape1 == deser_value_is_object(details.val, "Details must be object like.") IN
    IF ~shape1.ok THEN shape1 ELSE
    Ok([type |-> "Hello", realm |-> realm.val, details |-> details.val])

Hello_deserialize(seq) ==
    deserialize_struct(Hello_visit_seq(seq), seq, Elements("Hello"))

\* messages/welcome.rs
Welcome_serialize(m) ==
    LET details == ser_value_is_object(m.details, "details must be object like.") IN
    IF ~details.ok THEN details
    ELSE Ok(<<U(Welcome_ID), U(m.session), details.val>>)

Welcome_visit_seq(seq) ==
    LET message_id == deser_seq_element(seq, 1, "u64", "Message ID must be type u64.") IN
    IF ~message_id.ok THEN message_id ELSE
    LET tag == validate_id(Welcome_ID, message_id.val, "Welcome") IN
    IF ~tag.ok THEN tag ELSE
    LET session == deser_seq_element(seq, 2, "u64", "Request ID must be a u64.") IN
    IF ~session.ok THEN session ELSE
    LET details == deser_seq_element(seq, 3, "Value", "details must be a JSON value.") IN
    IF ~details.ok THEN details ELSE
    LET shape1 == deser_value_is_object(details.val, "details must be object like.") IN
    IF ~shape1.ok THEN shape1 ELSE
    Ok([type |-> "Welcome", session |-> session.val, details |-> details.val])

Welcome_deserialize(seq) ==
    deserialize_struct(Welcome_visit_seq(seq), seq, Elements("Welcome"))

\* messages/abort.rs
Abort_serialize(m) ==
    LET details == ser_value_is_object(m.details, "Details must be object like.") IN
    IF ~details.ok THEN details
    ELSE Ok(<<U(Abort_ID), details.val, Str(m.reason)>>)

Abort_visit_seq(seq) ==
    LET message_id == deser_seq_element(seq, 1, "u64", "Message ID must be type u8.") IN
    IF ~message_id.ok THEN message_id ELSE
    LET tag == validate_id(Abort_ID, message_id.val, "Abort") IN
    IF ~tag.ok THEN tag ELSE
    LET details == deser_seq_element(seq, 2, "Value", "Details must be a JSON value.") IN
    IF ~details.ok THEN details ELSE
    LET reason == deser_seq_element(seq, 3, "String", "Reason must be a String.") IN
    IF ~reason.ok THEN reason ELSE
    LET shape1 == deser_value_is_object(details.val, "Details must be object like.") IN
    IF ~shape1.ok THEN shape1 ELSE
    Ok([type |-> "Abort", reason |-> reason.val, details |-> details.val])

Abort_deserialize(seq) ==
    deserialize_struct(Abort_visit_seq(seq), seq, Elements("Abort"))

\* messages/challenge.rs
Challenge_serialize(m) ==
    LET details == ser_value_is_object(m.details, "Details must be object like.") IN
    IF ~details.ok THEN details
    ELSE Ok(<<U(Challenge_ID), Str(m.authmethod), details.val>>)

Challenge_visit_seq(seq) ==
    LET message_id == deser_seq_element(seq, 1, "u64", "Message ID must be present and type u8.") IN
    IF ~message_id.ok THEN message_id ELSE
    LET tag == validate_id(Challenge_ID, message_id.val, "Challenge") IN
    IF ~tag.ok THEN tag ELSE
    LET authmethod == deser_seq_element(seq, 2, "String", "authmethod must be type String.") IN
    IF ~authmethod.ok THEN authmethod ELSE
    LET details == deser_seq_element(seq, 3, "Value", "Details must be present and object like.") IN
    IF ~details.ok THEN details ELSE
    LET shape1 == deser_value_is_object(details.val, "Value must be object like") IN
    IF ~shape1.ok THEN shape1 ELSE
    Ok([type |-> "Challenge", authmethod |-> authmethod.val, details |-> details.val])

Challenge_deserialize(seq) ==
    deserialize_struct(Challenge_visit_seq(seq), seq, Elements("Challenge"))

\* messages/authenticate.rs
Authenticate_serialize(m) ==
    LET details == ser_value_is_object(m.details, "Details must be object like.") IN
    IF ~details.ok THEN details
    ELSE Ok(<<U(Authenticate_ID), Str(m.signature), details.val>>)

Authenticate_visit_seq(seq) ==
    LET message_id == deser_seq_element(seq, 1, "u64", "Message ID must be present and type u8.") IN
    IF ~message_id.ok THEN message_id ELSE
    LET tag == validate_id(Authenticate_ID, message_id.val, "Authenticate") IN
    IF ~tag.ok THEN tag ELSE
    LET signature == deser_seq_element(seq, 2, "String", "Signature must be type String.") IN
    IF ~signature.ok THEN signature ELSE
    LET details == deser_seq_element(seq, 3, "Value", "Details must be present and object like.") IN
    IF ~details.ok THEN details ELSE
    LET shape1 == deser_value_is_object(details.val, "Value must be object like") IN
    IF ~shape1.ok THEN shape1 ELSE
    Ok([type |-> "Authenticate", signature |-> signature.val, details |-> details.val])

Authenticate_deserialize(seq) ==
    deserialize_struct(Authenticate_visit_seq(seq), seq, Elements("Authenticate"))

\* messages/goodbye.rs
Goodbye_serialize(m) ==
    LET details == ser_value_is_object(m.details, "Details must be object like.") IN
    IF ~details.ok THEN details
    ELSE Ok(<<U(Goodbye_ID), details.val, Str(m.reason)>>)

Goodbye_visit_seq(seq) ==
    LET message_id == deser_seq_element(seq, 1, "u64", "Message ID must be type u8.") IN
    IF ~message_id.ok THEN message_id ELSE
    LET tag == validate_id(Goodbye_ID, message_id.val, "Goodbye") IN
    IF ~tag.ok THEN tag ELSE
    LET details == deser_seq_element(seq, 2, "Value", "Details must be a JSON value.") IN
    IF ~details.ok THEN details ELSE
    LET reason == deser_seq_element(seq, 3, "String", "Reason must be a String.") IN
    IF ~reason.ok THEN reason ELSE
    LET shape1 == deser_value_is_object(details.val, "Details must be object like.") IN
    IF ~shape1.ok THEN shape1 ELSE
    Ok([type |-> "Goodbye", reason |-> reason.val, details |-> details.val])

Goodbye_deserialize(seq) ==
    deserialize_struct(Goodbye_visit_seq(seq), seq, Elements("Goodbye"))

\* messages/error.rs
WampError_serialize(m) ==
    LET details == ser_value_is_object(m.details, "Details must be Object like.")
        args == ser_value_is_args(m.args, "Args must be Array like or Null.")
        kwargs == ser_value_is_kwargs(m.kwargs, "Kwargs must be Object like or Null.")
    IN
    IF ~details.ok THEN details
    ELSE IF ~args.ok THEN args
    ELSE IF ~kwargs.ok THEN kwargs
    ELSE IF is_null(args.val)
         THEN IF is_null(kwargs.val)
              THEN Ok(<<U(WampError_ID), U(WampErrorEvent_repr(m.event)), U(m.request_id), details.val, Str(m.error)>>)
              ELSE Ok(<<U(WampError_ID), U(WampErrorEvent_repr(m.event)), U(m.request_id), details.val, Str(m.error), Arr(0), kwargs.val>>)
         ELSE IF is_null(kwargs.val)
              THEN Ok(<<U(WampError_ID), U(WampErrorEvent_repr(m.event)), U(m.request_id), details.val, Str(m.error), args.val>>)
              ELSE Ok(<<U(WampError_ID), U(WampErrorEvent_repr(m.event)), U(m.request_id), details.val, Str(m.error), args.val, kwargs.val>>)

WampError_visit_seq(seq) ==
    LET message_id == deser_seq_element(seq, 1, "u64", "Message id must be present and type u64.") IN
    IF ~message_id.ok THEN message_id ELSE
    LET tag == validate_id(WampError_ID, message_id.val, "WampError") IN
    IF ~tag.ok THEN tag ELSE
    LET event == deser_seq_element(seq, 2, "WampErrorEvent", "Message type of error must be present and type u64") IN
    IF ~event.ok THEN event ELSE
    LET request_id == deser_seq_element(seq, 3, "u64", "Request ID must be present and type u64") IN
    IF ~request_id.ok THEN request_id ELSE
    LET details == deser_seq_element(seq, 4, "Value", "Details must be present and object like") IN
    IF ~details.ok THEN details ELSE
    LET shape1 == deser_value_is_object(details.val, "Details must be object like.") IN
    IF ~shape1.ok THEN shape1 ELSE
    LET error == deser_seq_element(seq, 5, "String", "Error URI must be present and type String") IN
    IF ~error.ok THEN error ELSE
    LET shape2 == deser_value_is_object(details.val, "Details must be object like.") IN
    IF ~shape2.ok THEN shape2 ELSE
    LET args == deser_args_kwargs_element(seq, 6, "Args must be array like or null.") IN
    IF ~args.ok THEN args ELSE
    LET kwargs == deser_args_kwargs_element(seq, 7, "Kwargs must be object like or null.") IN
    IF ~kwargs.ok THEN kwargs ELSE
    Ok([type |-> "WampError", event |-> event.val, request_id |-> request_id.val, details |-> details.val, error |-> error.val, args |-> args.val, kwargs |-> kwargs.val])

WampError_deserialize(seq) ==
    deserialize_struct(WampError_visit_seq(seq), seq, Elements("WampError"))

\* messages/publish.rs
Publish_serialize(m) ==
    LET options == ser_value_is_object(m.options, "Options must be object like.")
        args == ser_value_is_args(m.args, "Args must be Array like or Null.")
        kwargs == ser_value_is_kwargs(m.kwargs, "Kwargs must be Object like or Null.")
    IN
    IF ~options.ok THEN options
    ELSE IF ~args.ok THEN args
    ELSE IF ~kwargs.ok THEN kwargs
    ELSE IF is_null(args.val)
         THEN IF is_null(kwargs.val)
              THEN Ok(<<U(Publish_ID), U(m.request_id), options.val, Str(m.topic)>>)
              ELSE Ok(<<U(Publish_ID), U(m.request_id), options.val, Str(m.topic), Arr(0), kwargs.val>>)
         ELSE IF is_null(kwargs.val)
              THEN Ok(<<U(Publish_ID), U(m.request_id), options.val, Str(m.topic), args.val>>)
              ELSE Ok(<<U(Publish_ID), U(m.request_id), options.val, Str(m.topic), args.val, kwargs.val>>)

Publish_visit_seq(seq) ==
    LET message_id == deser_seq_element(seq, 1, "u64", "Message ID must be present and type u8.") IN
    IF ~message_id.ok THEN message_id ELSE
    LET tag == validate_id(Publish_ID, message_id.val, "Publish") IN
    IF ~tag.ok THEN tag ELSE
    LET request_id == deser_seq_element(seq, 2, "u64", "Request ID must be present and type u64.") IN
    IF ~request_id.ok THEN request_id ELSE
    LET options == deser_seq_element(seq, 3, "Value", "Options must be present and object like.") IN
    IF ~options.ok THEN options ELSE
    LET shape1 == deser_value_is_object(options.val, "Options must be object like.") IN
    IF ~shape1.ok THEN shape1 ELSE
    LET topic == deser_seq_element(seq, 4, "String", "topic must be present and object like.") IN
    IF ~topic.ok THEN topic ELSE
    LET args == deser_args_kwargs_element(seq, 5, "Args must be array like or null.") IN
    IF ~args.ok THEN args ELSE
    LET kwargs == deser_args_kwargs_element(seq, 6, "Kwargs must be object like or null.") IN
    IF ~kwargs.ok THEN kwargs ELSE
    Ok([type |-> "Publish", request_id |-> request_id.val, options |-> options.val, topic |-> topic.val, args |-> args.val, kwargs |-> kwargs.val])

Publish_deserialize(seq) ==
    deserialize_struct(Publish_visit_seq(seq), seq, Elements("Publish"))

\* messages/published.rs
Published_serialize(m) ==
    Ok(<<U(Published_ID), U(m.request_id), U(m.publication)>>)

Published_visit_seq(seq) ==
    LET message_id == deser_seq_element(seq, 1, "u64", "Message ID must be present and type u8.") IN
    IF ~message_id.ok THEN message_id ELSE
    LET tag == validate_id(Published_ID, message_id.val, "Published") IN
    IF ~tag.ok THEN tag ELSE
    LET request_id == deser_seq_element(seq, 2, "u64", "request_id must be present and type u64.") IN
    IF ~request_id.ok THEN request_id ELSE
    LET publication == deser_seq_element(seq, 3, "u64", "publication must be present and object like.") IN
    IF ~publication.ok THEN publication ELSE
    Ok([type |-> "Published", request_id |-> request_id.val, publication |-> publication.val])

Published_deserialize(seq) ==
    deserialize_struct(Published_visit_seq(seq), seq, Elements("Published"))

\* messages/subscribe.rs
Subscribe_serialize(m) ==
    Ok(<<U(Subscribe_ID), U(m.request_id), m.options, Str(m.topic)>>)

Subscribe_visit_seq(seq) ==
    LET message_id == deser_seq_element(seq, 1, "u64", "Message id must be present and type u64.") IN
    IF ~message_id.ok THEN message_id ELSE
    LET tag == validate_id(Subscribe_ID, message_id.val, "Subscribe") IN
    IF ~tag.ok THEN tag ELSE
    LET request_id == deser_seq_element(seq, 2, "u64", "Request ID must be present and type u64") IN
    IF ~request_id.ok THEN request_id ELSE
    LET options == deser_seq_element(seq, 3, "Value", "options must be present and object like") IN
    IF ~options.ok THEN options ELSE
    LET shape1 == deser_value_is_object(options.val, "options must be object like.") IN
    IF ~shape1.ok THEN shape1 ELSE
    LET topic == deser_seq_element(seq, 4, "String", "topic URI must be present and type String") IN
    IF ~topic.ok THEN topic ELSE
    LET shape2 == deser_value_is_object(options.val, "options must be object like.") IN
    IF ~shape2.ok THEN shape2 ELSE
    Ok([type |-> "Subscribe", request_id |-> request_id.val, options |-> options.val, topic |-> topic.val])

Subscribe_deserialize(seq) ==
    deserialize_struct(Subscribe_visit_seq(seq), seq, Elements("Subscribe"))

\* messages/subscribed.rs
Subscribed_serialize(m) ==
    Ok(<<U(Subscribed_ID), U(m.request_id), U(m.subscription)>>)

Subscribed_visit_seq(seq) ==
    LET message_id == deser_seq_element(seq, 1, "u64", "Message ID must be present and type u8.") IN
    IF ~message_id.ok THEN message_id ELSE
    LET tag == validate_id(Subscribed_ID, message_id.val, "Subscribed") IN
    IF ~tag.ok THEN tag ELSE
    LET request_id == deser_seq_element(seq, 2, "u64", "request_id must be present and type u64.") IN
    IF ~request_id.ok THEN request_id ELSE
    LET subscription == deser_seq_element(seq, 3, "u64", "subscription must be present and object like.") IN
    IF ~subscription.ok THEN subscription ELSE
    Ok([type |-> "Subscribed", request_id |-> request_id.val, subscription |-> subscription.val])

Subscribed_deserialize(seq) ==
    deserialize_struct(Subscribed_visit_seq(seq), seq, Elements("Subscribed"))

\* messages/unsubscribe.rs
Unsubscribe_serialize(m) ==
    Ok(<<U(Unsubscribe_ID), U(m.request_id), U(m.subscription)>>)

Unsubscribe_visit_seq(seq) ==
    LET message_id == deser_seq_element(seq, 1, "u64", "Message ID must be present and type u8.") IN
    IF ~message_id.ok THEN message_id ELSE
    LET tag == validate_id(Unsubscribe_ID, message_id.val, "Unsubscribe") IN
    IF ~tag.ok THEN tag ELSE
    LET request_id == deser_seq_element(seq, 2, "u64", "request_id must be present and type u64.") IN
    IF ~request_id.ok THEN request_id ELSE
    LET subscription == deser_seq_element(seq, 3, "u64", "subscription must be present and object like.") IN
    IF ~subscription.ok THEN subscription ELSE
    Ok([type |-> "Unsubscribe", request_id |-> request_id.val, subscription |-> subscription.val])

Unsubscribe_deserialize(seq) ==
    deserialize_struct(Unsubscribe_visit_seq(seq), seq, Elements("Unsubscribe"))

\* messages/unsubscribed.rs
Unsubscribed_serialize(m) ==
    Ok(<<U(Unsubscribed_ID), U(m.request_id)>>)

Unsubscribed_visit_seq(seq) ==
    LET message_id == deser_seq_element(seq, 1, "u64", "Message ID must be present and type u8.") IN
    IF ~message_id.ok THEN message_id ELSE
    LET tag == validate_id(Unsubscribed_ID, message_id.val, "Unsubscribed") IN
    IF ~tag.ok THEN tag ELSE
    LET request_id == deser_seq_element(seq, 2, "u64", "request_id must be present and type u64.") IN
    IF ~request_id.ok THEN request_id ELSE
    Ok([type |-> "Unsubscribed", request_id |-> request_id.val])

Unsubscribed_deserialize(seq) ==
    deserialize_struct(Unsubscribed_visit_seq(seq), seq, Elements("Unsubscribed"))

\* messages/event.rs
Event_serialize(m) ==
    LET args == ser_value_is_args(m.args, "Args must be Array like or Null.")
        kwargs == ser_value_is_kwargs(m.kwargs, "Kwargs must be Object like or Null.")
    IN
    IF ~args.ok THEN args
    ELSE IF ~kwargs.ok THEN kwargs
    ELSE IF is_null(args.val)
         THEN IF is_null(kwargs.val)
              THEN Ok(<<U(Event_ID), U(m.subscription), U(m.publication), m.details>>)
              ELSE Ok(<<U(Event_ID), U(m.subscription), U(m.publication), m.details, Arr(0), kwargs.val>>)
         ELSE IF is_null(kwargs.val)
              THEN Ok(<<U(Event_ID), U(m.subscription), U(m.publication), m.details, args.val>>)
              ELSE Ok(<<U(Event_ID), U(m.subscription), U(m.publication), m.details, args.val, kwargs.val>>)

Event_visit_seq(seq) ==
    LET message_id == deser_seq_element(seq, 1, "u64", "Message ID must be present and type u8.") IN
    IF ~message_id.ok THEN message_id ELSE
    LET tag == validate_id(Event_ID, message_id.val, "Event") IN
    IF ~tag.ok THEN tag ELSE
    LET subscription == deser_seq_element(seq, 2, "u64", "Subscription must be present and type u64.") IN
    IF ~subscription.ok THEN subscription ELSE
    LET publication == deser_seq_element(seq, 3, "u64", "Publication must be present and object like.") IN
    IF ~publication.ok THEN publication ELSE
    LET details == deser_seq_element(seq, 4, "Value", "Details must be present and object like.") IN
    IF ~details.ok THEN details ELSE
    LET shape1 == deser_value_is_object(details.val, "Details must be object like.") IN
    IF ~shape1.ok THEN shape1 ELSE
    LET args == deser_args_kwargs_element(seq, 5, "Args must be array like or null.") IN
    IF ~args.ok THEN args ELSE
    LET kwargs == deser_args_kwargs_element(seq, 6, "Kwargs must be object like or null.") IN
    IF ~kwargs.ok THEN kwargs ELSE
    Ok([type |-> "Event", subscription |-> subscription.val, publication |-> publication.val, details |-> details.val, args |-> args.val, kwargs |-> kwargs.val])

Event_deserialize(seq) ==
    deserialize_struct(Event_visit_seq(seq), seq, Elements("Event"))

\* messages/call.rs
Call_serialize(m) ==
    LET options == ser_value_is_object(m.options, "Options must be object like.")
        args == ser_value_is_args(m.args, "Args must be Array like or Null.")
        kwargs == ser_value_is_kwargs(m.kwargs, "Kwargs must be Object like or Null.")
    IN
    IF ~options.ok THEN options
    ELSE IF ~args.ok THEN args
    ELSE IF ~kwargs.ok THEN kwargs
    ELSE IF is_null(args.val)
         THEN IF is_null(kwargs.val)
              THEN Ok(<<U(Call_ID), U(m.request_id), options.val, Str(m.procedure)>>)
              ELSE Ok(<<U(Call_ID), U(m.request_id), options.val, Str(m.procedure), Arr(0), kwargs.val>>)
         ELSE IF is_null(kwargs.val)
              THEN Ok(<<U(Call_ID), U(m.request_id), options.val, Str(m.procedure), args.val>>)
              ELSE Ok(<<U(Call_ID), U(m.request_id), options.val, Str(m.procedure), args.val, kwargs.val>>)

Call_visit_seq(seq) ==
    LET message_id == deser_seq_element(seq, 1, "u64", "Message ID must be present and type u8.") IN
    IF ~message_id.ok THEN message_id ELSE
    LET tag == validate_id(Call_ID, message_id.val, "Call") IN
    IF ~tag.ok THEN tag ELSE
    LET request_id == deser_seq_element(seq, 2, "u64", "Request ID must be present and type u64.") IN
    IF ~request_id.ok THEN request_id ELSE
    LET options == deser_seq_element(seq, 3, "Value", "Options must be present and object like.") IN
    IF ~options.ok THEN options ELSE
    LET shape1 == deser_value_is_object(options.val, "Options must be object like.") IN
    IF ~shape1.ok THEN shape1 ELSE
    LET procedure == deser_seq_element(seq, 4, "String", "Procedure must be present and object like.") IN
    IF ~procedure.ok THEN procedure ELSE
    LET args == deser_args_kwargs_element(seq, 5, "Args must be array like or null.") IN
    IF ~args.ok THEN args ELSE
    LET kwargs == deser_args_kwargs_element(seq, 6, "Kwargs must be object like or null.") IN
    IF ~kwargs.ok THEN kwargs ELSE
    Ok([type |-> "Call", request_id |-> request_id.val, options |-> options.val, procedure |-> procedure.val, args |-> args.val, kwargs |-> kwargs.val])

Call_deserialize(seq) ==
    deserialize_struct(Call_visit_seq(seq), seq, Elements("Call"))

\* messages/cancel.rs
Cancel_serialize(m) ==
    LET options == ser_value_is_object(m.options, "Options must be object like.") IN
    IF ~options.ok THEN options
    ELSE Ok(<<U(Cancel_ID), U(m.request_id), options.val>>)

Cancel_visit_seq(seq) ==
    LET message_id == deser_seq_element(seq, 1, "u64", "Message ID must be type u64.") IN
    IF ~message_id.ok THEN message_id ELSE
    LET tag == validate_id(Cancel_ID, message_id.val, "Cancel") IN
    IF ~tag.ok THEN tag ELSE
    LET request_id == deser_seq_element(seq, 2, "u64", "Request ID must be a u64.") IN
    IF ~request_id.ok THEN request_id ELSE
    LET options == deser_seq_element(seq, 3, "Value", "Options must be a JSON value.") IN
    IF ~options.ok THEN options ELSE
    LET shape1 == deser_value_is_object(options.val, "Options must be object like.") IN
    IF ~shape1.ok THEN shape1 ELSE
    Ok([type |-> "Cancel", request_id |-> request_id.val, options |-> options.val])

Cancel_deserialize(seq) ==
    deserialize_struct(Cancel_visit_seq(seq), seq, Elements("Cancel"))

\* an encoder that emits kwargs without the empty array when args is null
WampResult_serialize_unpadded(m) ==
    LET details == ser_value_is_object(m.details, "details must be object like.")
        args == ser_value_is_args(m.args, "Args must be Array like or Null.")
        kwargs == ser_value_is_kwargs(m.kwargs, "Kwargs must be Object like or Null.")
    IN
    IF ~details.ok THEN details
    ELSE IF ~args.ok THEN args
    ELSE IF ~kwargs.ok THEN kwargs
    ELSE IF is_null(args.val)
         THEN IF is_null(kwargs.val)
              THEN Ok(<<U(WampResult_ID), U(m.request_id), details.val>>)
              ELSE Ok(<<U(WampResult_ID), U(m.request_id), details.val, kwargs.val>>)
         ELSE IF is_null(kwargs.val)
              THEN Ok(<<U(WampResult_ID), U(m.request_id), details.val, args.val>>)
              ELSE Ok(<<U(WampResult_ID), U(m.request_id), details.val, args.val, kwargs.val>>)

\* messages/result.rs
WampResult_serialize(m) ==
    LET details == ser_value_is_object(m.details, "details must be object like.")
        args == ser_value_is_args(m.args, "Args must be Array like or Null.")
        kwargs == ser_value_is_kwargs(m.kwargs, "Kwargs must be Object like or Null.")
    IN
    IF ~details.ok THEN details
    ELSE IF ~args.ok THEN args
    ELSE IF ~kwargs.ok THEN kwargs
    ELSE IF is_null(args.val)
         THEN IF is_null(kwargs.val)
              THEN Ok(<<U(WampResult_ID), U(m.request_id), details.val>>)
              ELSE Ok(<<U(WampResult_ID), U(m.request_id), details.val, Arr(0), kwargs.val>>)
         ELSE IF is_null(kwargs.val)
              THEN Ok(<<U(WampResult_ID), U(m.request_id), details.val, args.val>>)
              ELSE Ok(<<U(WampResult_ID), U(m.request_id), details.val, args.val, kwargs.val>>)

WampResult_visit_seq(seq) ==
    LET message_id == deser_seq_element(seq, 1, "u64", "Message ID must be present and type u8.") IN
    IF ~message_id.ok THEN message_id ELSE
    LET tag == validate_id(WampResult_ID, message_id.val, "WampResult") IN
    IF ~tag.ok THEN tag ELSE
    LET request_id == deser_seq_element(seq, 2, "u64", "Request ID must be present and type u64.") IN
    IF ~request_id.ok THEN request_id ELSE
    LET details == deser_seq_element(seq, 3, "Value", "details must be present and object like.") IN
    IF ~details.ok THEN details ELSE
    LET shape1 == deser_value_is_object(details.val, "details must be object like.") IN
    IF ~shape1.ok THEN shape1 ELSE
    LET args == deser_args_kwargs_element(seq, 4, "Args must be array like or null.") IN
    IF ~args.ok THEN args ELSE
    LET kwargs == deser_args_kwargs_element(seq, 5, "Kwargs must be object like or null.") IN
    IF ~kwargs.ok THEN kwargs ELSE
    Ok([type |-> "WampResult", request_id |-> request_id.val, details |-> details.val, args |-> args.val, kwargs |-> kwargs.val])

WampResult_deserialize(seq) ==
    deserialize_struct(WampResult_visit_seq(seq), seq, Elements("WampResult"))

\* messages/register.rs
Register_serialize(m) ==
    Ok(<<U(Register_ID), U(m.request_id), m.options, Str(m.procedure)>>)

Register_visit_seq(seq) ==
    LET message_id == deser_seq_element(seq, 1, "u64", "Message id must be present and type u64.") IN
    IF ~message_id.ok THEN message_id ELSE
    LET tag == validate_id(Register_ID, message_id.val, "Register") IN
    IF ~tag.ok THEN tag ELSE
    LET request_id == deser_seq_element(seq, 2, "u64", "Request ID must be present and type u64") IN
    IF ~request_id.ok THEN request_id ELSE
    LET options == deser_seq_element(seq, 3, "Value", "options must be present and object like") IN
    IF ~options.ok THEN options ELSE
    LET shape1 == deser_value_is_object(options.val, "options must be object like.") IN
    IF ~shape1.ok THEN shape1 ELSE
    LET procedure == deser_seq_element(seq, 4, "String", "procedure URI must be present and type String") IN
    IF ~procedure.ok THEN procedure ELSE
    LET shape2 == deser_value_is_object(options.val, "options must be object like.") IN
    IF ~shape2.ok THEN shape2 ELSE
    Ok([type |-> "Register", request_id |-> request_id.val, options |-> options.val, procedure |-> procedure.val])

Register_deserialize(seq) ==
    deserialize_struct(Register_visit_seq(seq), seq, Elements("Register"))

\* messages/registered.rs
Registered_serialize(m) ==
    Ok(<<U(Registered_ID), U(m.request_id), U(m.registration)>>)

Registered_visit_seq(seq) ==
    LET message_id == deser_seq_element(seq, 1, "u64", "Message ID must be present and type u8.") IN
    IF ~message_id.ok THEN message_id ELSE
    LET tag == validate_id(Registered_ID, message_id.val, "Registered") IN
    IF ~tag.ok THEN tag ELSE
    LET request_id == deser_seq_element(seq, 2, "u64", "request_id must be present and type u64.") IN
    IF ~request_id.ok THEN request_id ELSE
    LET registration == deser_seq_element(seq, 3, "u64", "registration must be present and object like.") IN
    IF ~registration.ok THEN registration ELSE
    Ok([type |-> "Registered", request_id |-> request_id.val, registration |-> registration.val])

Registered_deserialize(seq) ==
    deserialize_struct(Registered_visit_seq(seq), seq, Elements("Registered"))

\* messages/unregister.rs
Unregister_serialize(m) ==
    Ok(<<U(Unregister_ID), U(m.request_id), U(m.registration)>>)

Unregister_visit_seq(seq) ==
    LET message_id == deser_seq_element(seq, 1, "u64", "Message ID must be present and type u8.") IN
    IF ~message_id.ok THEN message_id ELSE
    LET tag == validate_id(Unregister_ID, message_id.val, "Unregister") IN
    IF ~tag.ok THEN tag ELSE
    LET request_id == deser_seq_element(seq, 2, "u64", "request_id must be present and type u64.") IN
    IF ~request_id.ok THEN request_id ELSE
    LET registration == deser_seq_element(seq, 3, "u64", "registration must be present and object like.") IN
    IF ~registration.ok THEN registration ELSE
    Ok([type |-> "Unregister", request_id |-> request_id.val, registration |-> registration.val])

Unregister_deserialize(seq) ==
    deserialize_struct(Unregister_visit_seq(seq), seq, Elements("Unregister"))

\* messages/unregistered.rs
Unregistered_serialize(m) ==
    Ok(<<U(Unregistered_ID), U(m.request_id)>>)

Unregistered_visit_seq(seq) ==
    LET message_id == deser_seq_element(seq, 1, "u64", "Message ID must be present and type u8.") IN
    IF ~message_id.ok THEN message_id ELSE
    LET tag == validate_id(Unregistered_ID, message_id.val, "Unregistered") IN
    IF ~tag.ok THEN tag ELSE
    LET request_id == deser_seq_element(seq, 2, "u64", "request_id must be present and type u64.") IN
    IF ~request_id.ok THEN request_id ELSE
    Ok([type |-> "Unregistered", request_id |-> request_id.val])

Unregistered_deserialize(seq) ==
    deserialize_struct(Unregistered_visit_seq(seq), seq, Elements("Unregistered"))

\* messages/invocation.rs
Invocation_serialize(m) ==
    LET args == ser_value_is_args(m.args, "Args must be Array like or Null.")
        kwargs == ser_value_is_kwargs(m.kwargs, "Kwargs must be Object like or Null.")
    IN
    IF ~args.ok THEN args
    ELSE IF ~kwargs.ok THEN kwargs
    ELSE IF is_null(args.val)
         THEN IF is_null(kwargs.val)
              THEN Ok(<<U(Invocation_ID), U(m.request_id), U(m.registration), m.details>>)
              ELSE Ok(<<U(Invocation_ID), U(m.request_id), U(m.registration), m.details, Arr(0), kwargs.val>>)
         ELSE IF is_null(kwargs.val)
              THEN Ok(<<U(Invocation_ID), U(m.request_id), U(m.registration), m.details, args.val>>)
              ELSE Ok(<<U(Invocation_ID), U(m.request_id), U(m.registration), m.details, args.val, kwargs.val>>)

Invocation_visit_seq(seq) ==
    LET message_id == deser_seq_element(seq, 1, "u64", "Message ID must be present and type u8.") IN
    IF ~message_id.ok THEN message_id ELSE
    LET tag == validate_id(Invocation_ID, message_id.val, "Invocation") IN
    IF ~tag.ok THEN tag ELSE
    LET request_id == deser_seq_element(seq, 2, "u64", "request_id must be present and type u64.") IN
    IF ~request_id.ok THEN request_id ELSE
    LET registration == deser_seq_element(seq, 3, "u64", "registration must be present and object like.") IN
    IF ~registration.ok THEN registration ELSE
    LET details == deser_seq_element(seq, 4, "Value", "Details must be present and object like.") IN
    IF ~details.ok THEN details ELSE
    LET shape1 == deser_value_is_object(details.val, "Details must be object like.") IN
    IF ~shape1.ok THEN shape1 ELSE
    LET args == deser_args_kwargs_element(seq, 5, "Args must be array like or null.") IN
    IF ~args.ok THEN args ELSE
    LET kwargs == deser_args_kwargs_element(seq, 6, "Kwargs must be object like or null.") IN
    IF ~kwargs.ok THEN kwargs ELSE
    Ok([type |-> "Invocation", request_id |-> request_id.val, registration |-> registration.val, details |-> details.val, args |-> args.val, kwargs |-> kwargs.val])

Invocation_deserialize(seq) ==
    deserialize_struct(Invocation_visit_seq(seq), seq, Elements("Invocation"))

\* messages/interrupt.rs
Interrupt_serialize(m) ==
    LET options == ser_value_is_object(m.options, "Options must be object like.") IN
    IF ~options.ok THEN options
    ELSE Ok(<<U(Interrupt_ID), U(m.request_id), options.val>>)

Interrupt_visit_seq(seq) ==
    LET message_id == deser_seq_element(seq, 1, "u64", "Message ID must be type u64.") IN
    IF ~message_id.ok THEN message_id ELSE
    LET tag == validate_id(Interrupt_ID, message_id.val, "Interrupt") IN
    IF ~tag.ok THEN tag ELSE
    LET request_id == deser_seq_element(seq, 2, "u64", "Request ID must be a u64.") IN
    IF ~request_id.ok THEN request_id ELSE
    LET options == deser_seq_element(seq, 3, "Value", "Options must be a JSON value.") IN
    IF ~options.ok THEN options ELSE
    LET shape1 == deser_value_is_object(options.val, "Options must be object like.") IN
    IF ~shape1.ok THEN shape1 ELSE
    Ok([type |-> "Interrupt", request_id |-> request_id.val, options |-> options.val])

Interrupt_deserialize(seq) ==
    deserialize_struct(Interrupt_visit_seq(seq), seq, Elements("Interrupt"))

\* messages/yield.rs
Yield_serialize(m) ==
    LET options == ser_value_is_object(m.options, "options must be object like.")
        args == ser_value_is_args(m.args, "Args must be Array like or Null.")
        kwargs == ser_value_is_kwargs(m.kwargs, "Kwargs must be Object like or Null.")
    IN
    IF ~options.ok THEN options
    ELSE IF ~args.ok THEN args
    ELSE IF ~kwargs.ok THEN kwargs
    ELSE IF is_null(args.val)
         THEN IF is_null(kwargs.val)
              THEN Ok(<<U(Yield_ID), U(m.request_id), options.val>>)
              ELSE Ok(<<U(Yield_ID), U(m.request_id), options.val, Arr(0), kwargs.val>>)
         ELSE IF is_null(kwargs.val)
              THEN Ok(<<U(Yield_ID), U(m.request_id), options.val, args.val>>)
              ELSE Ok(<<U(Yield_ID), U(m.request_id), options.val, args.val, kwargs.val>>)

Yield_visit_seq(seq) ==
    LET message_id == deser_seq_element(seq, 1, "u64", "Message ID must be present and type u8.") IN
    IF ~message_id.ok THEN message_id ELSE
    LET tag == validate_id(Yield_ID, message_id.val, "Yield") IN
    IF ~tag.ok THEN tag ELSE
    LET request_id == deser_seq_element(seq, 2, "u64", "Request ID must be present and type u64.") IN
    IF ~request_id.ok THEN request_id ELSE
    LET options == deser_seq_element(seq, 3, "Value", "options must be present and object like.") IN
    IF ~options.ok THEN options ELSE
    LET shape1 == deser_value_is_object(options.val, "options must be object like.") IN
    IF ~shape1.ok THEN shape1 ELSE
    LET args == deser_args_kwargs_element(seq, 4, "Args must be array like or null.") IN
    IF ~args.ok THEN args ELSE
    LET kwargs == deser_args_kwargs_element(seq, 5, "Kwargs must be object like or null.") IN
    IF ~kwargs.ok THEN kwargs ELSE
    Ok([type |-> "Yield", request_id |-> request_id.val, options |-> options.val, args |-> args.val, kwargs |-> kwargs.val])

Yield_deserialize(seq) ==
    deserialize_struct(Yield_visit_seq(seq), seq, Elements("Yield"))

----------------------------------------------------------------------------
\* The message types, by struct name, and the per-type entry points
\* (serde_json::to_string(&m) / from_str::<T>(frame)).

Types ==
    {"Hello", "Welcome", "Abort", "Challenge", "Authenticate",
     "Goodbye", "WampError", "Publish", "Published", "Subscribe",
     "Subscribed", "Unsubscribe", "Unsubscribed", "Event", "Call",
     "Cancel", "WampResult", "Register", "Registered", "Unregister",
     "Unregistered", "Invocation", "Interrupt", "Yield"}

\* T::ID
ID(T) ==
    CASE T = "Hello" -> Hello_ID
      [] T = "Welcome" -> Welcome_ID
      [] T = "Abort" -> Abort_ID
      [] T = "Challenge" -> Challenge_ID
      [] T = "Authenticate" -> Authenticate_ID
      [] T = "Goodbye" -> Goodbye_ID
      [] T = "WampError" -> WampError_ID
      [] T = "Publish" -> Publish_ID
      [] T = "Published" -> Published_ID
      [] T = "Subscribe" -> Subscribe_ID
      [] T = "Subscribed" -> Subscribed_ID
      [] T = "Unsubscribe" -> Unsubscribe_ID
      [] T = "Unsubscribed" -> Unsubscribed_ID
      [] T = "Event" -> Event_ID
      [] T = "Call" -> Call_ID
      [] T = "Cancel" -> Cancel_ID
      [] T = "WampResult" -> WampResult_ID
      [] T = "Register" -> Register_ID
      [] T = "Registered" -> Registered_ID
      [] T = "Unregister" -> Unregister_ID
      [] T = "Unregistered" -> Unregistered_ID
      [] T = "Invocation" -> Invocation_ID
      [] T = "Interrupt" -> Interrupt_ID
      [] T = "Yield" -> Yield_ID

\* <T as Serialize>::serialize
serialize(m) ==
    CASE m.type = "Hello" -> Hello_serialize(m)
      [] m.type = "Welcome" -> Welcome_serialize(m)
      [] m.type = "Abort" -> Abort_serialize(m)
      [] m.type = "Challenge" -> Challenge_serialize(m)
      [] m.type = "Authenticate" -> Authenticate_serialize(m)
      [] m.type = "Goodbye" -> Goodbye_serialize(m)
      [] m.type = "WampError" -> WampError_serialize(m)
      [] m.type = "Publish" -> Publish_serialize(m)
      [] m.type = "Published" -> Published_serialize(m)
      [] m.type = "Subscribe" -> Subscribe_serialize(m)
      [] m.type = "Subscribed" -> Subscribed_serialize(m)
      [] m.type = "Unsubscribe" -> Unsubscribe_serialize(m)
      [] m.type = "Unsubscribed" -> Unsubscribed_serialize(m)
      [] m.type = "Event" -> Event_serialize(m)
      [] m.type = "Call" -> Call_serialize(m)
      [] m.type = "Cancel" -> Cancel_serialize(m)
      [] m.type = "WampResult" -> WampResult_serialize(m)
      [] m.type = "Register" -> Register_serialize(m)
      [] m.type = "Registered" -> Registered_serialize(m)
      [] m.type = "Unregister" -> Unregister_serialize(m)
      [] m.type = "Unregistered" -> Unregistered_serialize(m)
      [] m.type = "Invocation" -> Invocation_serialize(m)
      [] m.type = "Interrupt" -> Interrupt_serialize(m)
      [] m.type = "Yield" -> Yield_serialize(m)

\* <T as Deserialize>::deserialize
deserialize(T, seq) ==
    CASE T = "Hello" -> Hello_deserialize(seq)
      [] T = "Welcome" -> Welcome_deserialize(seq)
      [] T = "Abort" -> Abort_deserialize(seq)
      [] T = "Challenge" -> Challenge_deserialize(seq)
      [] T = "Authenticate" -> Authenticate_deserialize(seq)
      [] T = "Goodbye" -> Goodbye_deserialize(seq)
      [] T = "WampError" -> WampError_deserialize(seq)
      [] T = "Publish" -> Publish_deserialize(seq)
      [] T = "Published" -> Published_deserialize(seq)
      [] T = "Subscribe" -> Subscribe_deserialize(seq)
      [] T = "Subscribed" -> Subscribed_deserialize(seq)
      [] T = "Unsubscribe" -> Unsubscribe_deserialize(seq)
      [] T = "Unsubscribed" -> Unsubscribed_deserialize(seq)
      [] T = "Event" -> Event_deserialize(seq)
      [] T = "Call" -> Call_deserialize(seq)
      [] T = "Cancel" -> Cancel_deserialize(seq)
      [] T = "WampResult" -> WampResult_deserialize(seq)
      [] T = "Register" -> Register_deserialize(seq)
      [] T = "Registered" -> Registered_deserialize(seq)
      [] T = "Unregister" -> Unregister_deserialize(seq)
      [] T = "Unregistered" -> Unregistered_deserialize(seq)
      [] T = "Invocation" -> Invocation_deserialize(seq)
      [] T = "Interrupt" -> Interrupt_deserialize(seq)
      [] T = "Yield" -> Yield_deserialize(seq)

----------------------------------------------------------------------------
\* messages/mod.rs: enum Messages, its deserializer and id().

Wrap(variant, r) ==
    IF r.ok THEN Ok([variant |-> variant, value |-> r.val]) ELSE r

\* fn helper: from_value(json!(wamp_components)).map_err(de::Error::custom)
helper(from_value) == from_value

\* a dispatch whose Challenge arm was copied from the Authenticate arm
Messages_deserialize_copied(wamp_components) ==
    LET wamp_message_id ==
            IF wamp_components # <<>>
            THEN IF as_u64(wamp_components[1]) # <<>>
                 THEN Ok(as_u64(wamp_components[1])[1])
                 ELSE Fail(Custom("Structural", ""))
            ELSE Fail(Custom("Structural", "value"))
    IN
    IF ~wamp_message_id.ok THEN wamp_message_id ELSE
    CASE wamp_message_id.val = Abort_ID -> Wrap("Abort", helper(Abort_deserialize(wamp_components)))
      [] wamp_message_id.val = Authenticate_ID -> Wrap("Authenticate", helper(Authenticate_deserialize(wamp_components)))
      [] wamp_message_id.val = Call_ID -> Wrap("Call", helper(Call_deserialize(wamp_components)))
      [] wamp_message_id.val = Cancel_ID -> Wrap("Cancel", helper(Cancel_deserialize(wamp_components)))
      [] wamp_message_id.val = Challenge_ID -> Wrap("Challenge", helper(Authenticate_deserialize(wamp_components)))
      [] wamp_message_id.val = WampError_ID -> Wrap("Error", helper(WampError_deserialize(wamp_components)))
      [] wamp_message_id.val = Event_ID -> Wrap("Event", helper(Event_deserialize(wamp_components)))
      [] wamp_message_id.val = Goodbye_ID -> Wrap("Goodbye", helper(Goodbye_deserialize(wamp_components)))
      [] wamp_message_id.val = Hello_ID -> Wrap("Hello", helper(Hello_deserialize(wamp_components)))
      [] wamp_message_id.val = Interrupt_ID -> Wrap("Interrupt", helper(Interrupt_deserialize(wamp_components)))
      [] wamp_message_id.val = Invocation_ID -> Wrap("Invocation", helper(Invocation_deserialize(wamp_components)))
      [] wamp_message_id.val = Publish_ID -> Wrap("Publish", helper(Publish_deserialize(wamp_components)))
      [] wamp_message_id.val = Published_ID -> Wrap("Published", helper(Published_deserialize(wamp_components)))
      [] wamp_message_id.val = Register_ID -> Wrap("Register", helper(Register_deserialize(wamp_components)))
      [] wamp_message_id.val = Registered_ID -> Wrap("Registered", helper(Registered_deserialize(wamp_components)))
      [] wamp_message_id.val = WampResult_ID -> Wrap("Result", helper(WampResult_deserialize(wamp_components)))
      [] wamp_message_id.val = Subscribe_ID -> Wrap("Subscribe", helper(Subscribe_deserialize(wamp_components)))
      [] wamp_message_id.val = Subscribed_ID -> Wrap("Subscribed", helper(Subscribed_deserialize(wamp_components)))
      [] wamp_message_id.val = Unregister_ID -> Wrap("Unregister", helper(Unregister_deserialize(wamp_components)))
      [] wamp_message_id.val = Unregistered_ID -> Wrap("Unregistered", helper(Unregistered_deserialize(wamp_components)))
      [] wamp_message_id.val = Unsubscribe_ID -> Wrap("Unsubscribe", helper(Unsubscribe_deserialize(wamp_components)))
      [] wamp_message_id.val = Unsubscribed_ID -> Wrap("Unsubscribed", helper(Unsubscribed_deserialize(wamp_components)))
      [] wamp_message_id.val = Welcome_ID -> Wrap("Welcome", helper(Welcome_deserialize(wamp_components)))
      [] wamp_message_id.val = Yield_ID -> Wrap("Yield", helper(Yield_deserialize(wamp_components)))
      [] OTHER -> Ok([variant |-> "Extension", value |-> wamp_components])

\* a dispatch that treats an unknown tag as an error
Messages_deserialize_strict(wamp_components) ==
    LET wamp_message_id ==
            IF wamp_components # <<>>
            THEN IF as_u64(wamp_components[1]) # <<>>
                 THEN Ok(as_u64(wamp_components[1])[1])
                 ELSE Fail(Custom("Structural", ""))
            ELSE Fail(Custom("Structural", "value"))
    IN
    IF ~wamp_message_id.ok THEN wamp_message_id ELSE
    CASE wamp_message_id.val = Abort_ID -> Wrap("Abort", helper(Abort_deserialize(wamp_components)))
      [] wamp_message_id.val = Authenticate_ID -> Wrap("Authenticate", helper(Authenticate_deserialize(wamp_components)))
      [] wamp_message_id.val = Call_ID -> Wrap("Call", helper(Call_deserialize(wamp_components)))
      [] wamp_message_id.val = Cancel_ID -> Wrap("Cancel", helper(Cancel_deserialize(wamp_components)))
      [] wamp_message_id.val = Challenge_ID -> Wrap("Challenge", helper(Challenge_deserialize(wamp_components)))
      [] wamp_message_id.val = WampError_ID -> Wrap("Error", helper(WampError_deserialize(wamp_components)))
      [] wamp_message_id.val = Event_ID -> Wrap("Event", helper(Event_deserialize(wamp_components)))
      [] wamp_message_id.val = Goodbye_ID -> Wrap("Goodbye", helper(Goodbye_deserialize(wamp_components)))
      [] wamp_message_id.val = Hello_ID -> Wrap("Hello", helper(Hello_deserialize(wamp_components)))
      [] wamp_message_id.val = Interrupt_ID -> Wrap("Interrupt", helper(Interrupt_deserialize(wamp_components)))
      [] wamp_message_id.val = Invocation_ID -> Wrap("Invocation", helper(Invocation_deserialize(wamp_components)))
      [] wamp_message_id.val = Publish_ID -> Wrap("Publish", helper(Publish_deserialize(wamp_components)))
      [] wamp_message_id.val = Published_ID -> Wrap("Published", helper(Published_deserialize(wamp_components)))
      [] wamp_message_id.val = Register_ID -> Wrap("Register", helper(Register_deserialize(wamp_components)))
      [] wamp_message_id.val = Registered_ID -> Wrap("Registered", helper(Registered_deserialize(wamp_components)))
      [] wamp_message_id.val = WampResult_ID -> Wrap("Result", helper(WampResult_deserialize(wamp_components)))
      [] wamp_message_id.val = Subscribe_ID -> Wrap("Subscribe", helper(Subscribe_deserialize(wamp_components)))
      [] wamp_message_id.val = Subscribed_ID -> Wrap("Subscribed", helper(Subscribed_deserialize(wamp_components)))
      [] wamp_message_id.val = Unregister_ID -> Wrap("Unregister", helper(Unregister_deserialize(wamp_components)))
      [] wamp_message_id.val = Unregistered_ID -> Wrap("Unregistered", helper(Unregistered_deserialize(wamp_components)))
      [] wamp_message_id.val = Unsubscribe_ID -> Wrap("Unsubscribe", helper(Unsubscribe_deserialize(wamp_components)))
      [] wamp_message_id.val = Unsubscribed_ID -> Wrap("Unsubscribed", helper(Unsubscribed_deserialize(wamp_components)))
      [] wamp_message_id.val = Welcome_ID -> Wrap("Welcome", helper(Welcome_deserialize(wamp_components)))
      [] wamp_message_id.val = Yield_ID -> Wrap("Yield", helper(Yield_deserialize(wamp_components)))
      [] OTHER -> Fail(Custom("Structural", "unknown message id"))

\* a dispatch that keeps a frame its type's decoder rejects as an Extension
Messages_deserialize_fallback(wamp_components) ==
    LET r == Messages_deserialize_strict(wamp_components) IN
    IF r.ok THEN r ELSE Ok([variant |-> "Extension", value |-> wamp_components])

Messages_deserialize(wamp_components) ==
    LET wamp_message_id ==
            IF wamp_components # <<>>
            THEN IF as_u64(wamp_components[1]) # <<>>
                 THEN Ok(as_u64(wamp_components[1])[1])
                 ELSE Fail(Custom("Structural", ""))
            ELSE Fail(Custom("Structural", "value"))
    IN
    IF ~wamp_message_id.ok THEN wamp_message_id ELSE
    CASE wamp_message_id.val = Abort_ID -> Wrap("Abort", helper(Abort_deserialize(wamp_components)))
      [] wamp_message_id.val = Authenticate_ID -> Wrap("Authenticate", helper(Authenticate_deserialize(wamp_components)))
      [] wamp_message_id.val = Call_ID -> Wrap("Call", helper(Call_deserialize(wamp_components)))
      [] wamp_message_id.val = Cancel_ID -> Wrap("Cancel", helper(Cancel_deserialize(wamp_components)))
      [] wamp_message_id.val = Challenge_ID -> Wrap("Challenge", helper(Challenge_deserialize(wamp_components)))
      [] wamp_message_id.val = WampError_ID -> Wrap("Error", helper(WampError_deserialize(wamp_components)))
      [] wamp_message_id.val = Event_ID -> Wrap("Event", helper(Event_deserialize(wamp_components)))
      [] wamp_message_id.val = Goodbye_ID -> Wrap("Goodbye", helper(Goodbye_deserialize(wamp_components)))
      [] wamp_message_id.val = Hello_ID -> Wrap("Hello", helper(Hello_deserialize(wamp_components)))
      [] wamp_message_id.val = Interrupt_ID -> Wrap("Interrupt", helper(Interrupt_deserialize(wamp_components)))
      [] wamp_message_id.val = Invocation_ID -> Wrap("Invocation", helper(Invocation_deserialize(wamp_components)))
      [] wamp_message_id.val = Publish_ID -> Wrap("Publish", helper(Publish_deserialize(wamp_components)))
      [] wamp_message_id.val = Published_ID -> Wrap("Published", helper(Published_deserialize(wamp_components)))
      [] wamp_message_id.val = Register_ID -> Wrap("Register", helper(Register_deserialize(wamp_components)))
      [] wamp_message_id.val = Registered_ID -> Wrap("Registered", helper(Registered_deserialize(wamp_components)))
      [] wamp_message_id.val = WampResult_ID -> Wrap("Result", helper(WampResult_deserialize(wamp_components)))
      [] wamp_message_id.val = Subscribe_ID -> Wrap("Subscribe", helper(Subscribe_deserialize(wamp_components)))
      [] wamp_message_id.val = Subscribed_ID -> Wrap("Subscribed", helper(Subscribed_deserialize(wamp_components)))
      [] wamp_message_id.val = Unregister_ID -> Wrap("Unregister", helper(Unregister_deserialize(wamp_components)))
      [] wamp_message_id.val = Unregistered_ID -> Wrap("Unregistered", helper(Unregistered_deserialize(wamp_components)))
      [] wamp_message_id.val = Unsubscribe_ID -> Wrap("Unsubscribe", helper(Unsubscribe_deserialize(wamp_components)))
      [] wamp_message_id.val = Unsubscribed_ID -> Wrap("Unsubscribed", helper(Unsubscribed_deserialize(wamp_components)))
      [] wamp_message_id.val = Welcome_ID -> Wrap("Welcome", helper(Welcome_deserialize(wamp_components)))
      [] wamp_message_id.val = Yield_ID -> Wrap("Yield", helper(Yield_deserialize(wamp_components)))
      [] OTHER -> Ok([variant |-> "Extension", value |-> wamp_components])

\* an Extension whose id is never found
Extension_id_absent(values) == <<>>

\* the Extension arm of id(): values.first() and then as_u64()
Extension_id(values) ==
    IF values # <<>> THEN as_u64(values[1]) ELSE <<>>

\* Option<u64>: <<n>> is Some(n), <<>> is None
Messages_id(self) ==
    CASE self.variant = "Authenticate" -> <<Authenticate_ID>>
      [] self.variant = "Abort" -> <<Abort_ID>>
      [] self.variant = "Call" -> <<Call_ID>>
      [] self.variant = "Cancel" -> <<Cancel_ID>>
      [] self.variant = "Challenge" -> <<Authenticate_ID>>
      [] self.variant = "Error" -> <<WampError_ID>>
      [] self.variant = "Event" -> <<Event_ID>>
      [] self.variant = "Goodbye" -> <<Goodbye_ID>>
      [] self.variant = "Hello" -> <<Hello_ID>>
      [] self.variant = "Interrupt" -> <<Interrupt_ID>>
      [] self.variant = "Invocation" -> <<Invocation_ID>>
      [] self.variant = "Publish" -> <<Publish_ID>>
      [] self.variant = "Published" -> <<Published_ID>>
      [] self.variant = "Register" -> <<Register_ID>>
      [] self.variant = "Registered" -> <<Registered_ID>>
      [] self.variant = "Result" -> <<WampResult_ID>>
      [] self.variant = "Subscribe" -> <<Subscribe_ID>>
      [] self.variant = "Subscribed" -> <<Subscribed_ID>>
      [] self.variant = "Unregister" -> <<Unregister_ID>>
      [] self.variant = "Unregistered" -> <<Unregistered_ID>>
      [] self.variant = "Unsubscribe" -> <<Unsubscribe_ID>>
      [] self.variant = "Unsubscribed" -> <<Unsubscribed_ID>>
      [] self.variant = "Welcome" -> <<Welcome_ID>>
      [] self.variant = "Yield" -> <<Yield_ID>>
      [] self.variant = "Extension" -> Extension_id(self.value)

----------------------------------------------------------------------------
\* Inputs: the message values a caller can build and the frames a peer can
\* send.

Ids == 1..MaxId
Strs == 1..MaxStr
Contents == 0..MaxContent

\* every serde_json::Value a pub field of type Value can hold
Values ==
    {Null} \cup {U(n) : n \in Ids} \cup {Str(s) : s \in Strs}
           \cup {Arr(c) : c \in Contents} \cup {Obj(c) : c \in Contents}

\* pub struct T { ... } of every message type
Struct(T) ==
    CASE T = "Hello" -> [type : {T}, realm : Strs, details : Values]
      [] T = "Welcome" -> [type : {T}, session : Ids, details : Values]
      [] T = "Abort" -> [type : {T}, reason : Strs, details : Values]
      [] T = "Challenge" -> [type : {T}, authmethod : Strs, details : Values]
      [] T = "Authenticate" -> [type : {T}, signature : Strs, details : Values]
      [] T = "Goodbye" -> [type : {T}, reason : Strs, details : Values]
      [] T = "WampError" ->
            [type : {T}, event : WampErrorEvents, request_id : Ids,
             details : Values, error : Strs, args : Values, kwargs : Values]
      [] T = "Publish" ->
            [type : {T}, request_id : Ids, options : Values, topic : Strs,
             args : Values, kwargs : Values]
      [] T = "Published" -> [type : {T}, request_id : Ids, publication : Ids]
      [] T = "Subscribe" -> [type : {T}, request_id : Ids, options : Values, topic : Strs]
      [] T = "Subscribed" -> [type : {T}, request_id : Ids, subscription : Ids]
      [] T = "Unsubscribe" -> [type : {T}, request_id : Ids, subscription : Ids]
      [] T = "Unsubscribed" -> [type : {T}, request_id : Ids]
      [] T = "Event" ->
            [type : {T}, subscription : Ids, publication : Ids, details : Values,
             args : Values, kwargs : Values]
      [] T = "Call" ->
            [type : {T}, request_id : Ids, options : Values, procedure : Strs,
             args : Values, kwargs : Values]
      [] T = "Cancel" -> [type : {T}, request_id : Ids, options : Values]
      [] T = "WampResult" ->
            [type : {T}, request_id : Ids, details : Values,
             args : Values, kwargs : Values]
      [] T = "Register" -> [type : {T}, request_id : Ids, options : Values, procedure : Strs]
      [] T = "Registered" -> [type : {T}, request_id : Ids, registration : Ids]
      [] T = "Unregister" -> [type : {T}, request_id : Ids, registration : Ids]
      [] T = "Unregistered" -> [type : {T}, request_id : Ids]
      [] T = "Invocation" ->
            [type : {T}, request_id : Ids, registration : Ids, details : Values,
             args : Values, kwargs : Values]
      [] T = "Interrupt" -> [type : {T}, request_id : Ids, options : Values]
      [] T = "Yield" ->
            [type : {T}, request_id : Ids, options : Values,
             args : Values, kwargs : Values]

\* one frame element of every JSON kind; the unsigned integer is a request id
\* that is also the tag of a request type, as Error frames carry
FrameUint == Call_ID
FrameValues == {Null, U(FrameUint), Str(1), Arr(0), Obj(0)}

\* leading elements of the frames sent to a peer that decodes them as T: T's
\* own tag, the next tag (Cancel's for Call, an unassigned one for Yield) and
\* values that are no tag at all (a negative number, a string, a map)
Leading(T) == {U(ID(T)), U(ID(T) + 1), Neg(1), Str(1), Obj(0)}

SeqsUpTo(S, n) == UNION {[1..k -> S] : k \in 0..n}

\* the frames decoded as T: every frame of at most Elements(T) + MaxExtra
\* elements
Frames(T) ==
    {<<>>} \cup {<<first>> \o rest :
                    first \in Leading(T),
                    rest \in SeqsUpTo(FrameValues, Elements(T) - 1 + MaxExtra)}

NoMsg == [type |-> "none"]
\* no id() call made yet (an Option<u64> is <<n>> or <<>>)
NoIdent == <<0, 0>>
NoType == "none"

----------------------------------------------------------------------------
\* Request-id generator (factories.rs).

Threads == 1..MaxThreads
NoThread == 0

CounterInit ==
    /\ NUMBER = 0
    /\ readers = {}
    /\ writer = NoThread
    /\ pc = [t \in Threads |-> "idle"]
    /\ previous = [t \in Threads |-> 0]
    /\ calls = [t \in Threads |-> 0]
    /\ returned = <<>>

----------------------------------------------------------------------------
\* Topic registry (factories.rs). A topic is the String that to_string()
\* gives for it, identified by its index.

Topics == 1..MaxTopics

RegistryInit ==
    /\ TOPICS = <<>>
    /\ topic_calls = <<>>

----------------------------------------------------------------------------
\* Conversions from Messages (try_from_messages! in messages/mod.rs).

NoConversion == [depth |-> 0, outcome |-> "none"]

ConversionInit == conversion = NoConversion

----------------------------------------------------------------------------
\* Role-direction matrix (WampMessage::direction of every message type).

Roles == {"Callee", "Caller", "Publisher", "Subscriber", "Dealer", "Broker"}
NoRole == "none"
NoDirection == [receives |-> FALSE, sends |-> FALSE, looked |-> FALSE]

MatrixInit ==
    /\ peer_role = NoRole
    /\ message_direction = NoDirection

----------------------------------------------------------------------------
\* Encoding: a caller serializes a message, the receiving peer deserializes
\* the frame as the same type.

InitEncode ==
    /\ msg \in UNION {Struct(T) : T \in Types}
    /\ encoded = None
    /\ attempt = NoType
    /\ wire = <<>>
    /\ decoded = None
    /\ parsed = None
    /\ ident = NoIdent
    /\ reencoded = None
    /\ CounterInit
    /\ MatrixInit
    /\ RegistryInit
    /\ ConversionInit

\* serde_json::to_value(&msg)
Serialize ==
    /\ msg # NoMsg
    /\ ~IsSet(encoded)
    /\ encoded' = serialize(msg)
    /\ UNCHANGED <<msg, attempt, wire, decoded, parsed, ident, reencoded>>
    /\ UNCHANGED counterVars
    /\ UNCHANGED matrixVars
    /\ UNCHANGED registryVars
    /\ UNCHANGED conversionVars

\* the frame produced by Serialize reaches the peer: from_value::<T>(frame)
Receive ==
    /\ encoded.ok
    /\ ~IsSet(decoded)
    /\ attempt' = msg.type
    /\ wire' = encoded.val
    /\ decoded' = deserialize(msg.type, encoded.val)
    /\ UNCHANGED <<msg, encoded, parsed, ident, reencoded>>
    /\ UNCHANGED counterVars
    /\ UNCHANGED matrixVars
    /\ UNCHANGED registryVars
    /\ UNCHANGED conversionVars

\* serde_json::to_value(&message) on the message the peer decoded
EncodeAgain ==
    /\ msg # NoMsg
    /\ decoded.ok
    /\ ~IsSet(reencoded)
    /\ reencoded' = serialize(decoded.val)
    /\ UNCHANGED <<msg, encoded, attempt, wire, decoded, parsed, ident>>
    /\ UNCHANGED counterVars
    /\ UNCHANGED matrixVars
    /\ UNCHANGED registryVars
    /\ UNCHANGED conversionVars

NextEncode == Serialize \/ Receive \/ EncodeAgain

SpecEncode == InitEncode /\ [][NextEncode]_vars

----------------------------------------------------------------------------
\* Decoding: a peer receives an arbitrary frame and decodes it either as a
\* given type or through the Messages enum.

InitDecode ==
    /\ msg = NoMsg
    /\ encoded = None
    /\ attempt \in Types
    /\ wire \in Frames(attempt)
    /\ decoded = None
    /\ parsed = None
    /\ ident = NoIdent
    /\ reencoded = None
    /\ CounterInit
    /\ MatrixInit
    /\ RegistryInit
    /\ ConversionInit

Fresh == ~IsSet(decoded) /\ ~IsSet(parsed)

\* from_value::<T>(frame)
Deserialize ==
    /\ Fresh
    /\ decoded' = deserialize(attempt, wire)
    /\ UNCHANGED <<msg, encoded, attempt, wire, parsed, ident, reencoded>>
    /\ UNCHANGED counterVars
    /\ UNCHANGED matrixVars
    /\ UNCHANGED registryVars
    /\ UNCHANGED conversionVars

\* from_value::<Messages>(frame)
DeserializeMessages ==
    /\ Fresh
    /\ parsed' = Messages_deserialize(wire)
    /\ UNCHANGED <<msg, encoded, attempt, wire, decoded, ident, reencoded>>
    /\ UNCHANGED counterVars
    /\ UNCHANGED matrixVars
    /\ UNCHANGED registryVars
    /\ UNCHANGED conversionVars

\* message.id() on a Messages value
Id ==
    /\ parsed.ok
    /\ ident = NoIdent
    /\ reencoded = None
    /\ ident' = Messages_id(parsed.val)
    /\ UNCHANGED <<msg, encoded, attempt, wire, decoded, parsed, reencoded>>
    /\ UNCHANGED counterVars
    /\ UNCHANGED matrixVars
    /\ UNCHANGED registryVars
    /\ UNCHANGED conversionVars

\* serde_json::to_value(&message) on the message from_value::<T> returned
Reencode ==
    /\ msg = NoMsg
    /\ decoded.ok
    /\ ~IsSet(encoded)
    /\ encoded' = serialize(decoded.val)
    /\ UNCHANGED <<msg, attempt, wire, decoded, parsed, ident, reencoded>>
    /\ UNCHANGED counterVars
    /\ UNCHANGED matrixVars
    /\ UNCHANGED registryVars
    /\ UNCHANGED conversionVars

NextDecode == Deserialize \/ DeserializeMessages \/ Id \/ Reencode

SpecDecode == InitDecode /\ [][NextDecode]_vars

----------------------------------------------------------------------------
\* Concurrent callers of factories::increment().

InitIncrement ==
    /\ msg = NoMsg
    /\ encoded = None
    /\ attempt = NoType
    /\ wire = <<>>
    /\ decoded = None
    /\ parsed = None
    /\ ident = NoIdent
    /\ reencoded = None
    /\ CounterInit
    /\ MatrixInit
    /\ RegistryInit
    /\ ConversionInit

\* a thread enters increment()
Call(t) ==
    /\ pc[t] = "idle"
    /\ calls[t] < MaxCalls
    /\ calls' = [calls EXCEPT ![t] = @ + 1]
    /\ pc' = [pc EXCEPT ![t] = "read"]
    /\ UNCHANGED <<NUMBER, readers, writer, previous, returned>>
    /\ UNCHANGED codecVars
    /\ UNCHANGED matrixVars
    /\ UNCHANGED registryVars
    /\ UNCHANGED conversionVars

\* NUMBER.read().unwrap()
ReadLock(t) ==
    /\ pc[t] = "read"
    /\ writer = NoThread
    /\ readers' = readers \cup {t}
    /\ pc' = [pc EXCEPT ![t] = "deref"]
    /\ UNCHANGED <<NUMBER, writer, previous, calls, returned>>
    /\ UNCHANGED codecVars
    /\ UNCHANGED matrixVars
    /\ UNCHANGED registryVars
    /\ UNCHANGED conversionVars

\* a read guard bound to a local, alive until increment() returns
Deref_holding(t) ==
    /\ pc[t] = "deref"
    /\ previous' = [previous EXCEPT ![t] = NUMBER]
    /\ pc' = [pc EXCEPT ![t] = "write"]
    /\ UNCHANGED <<NUMBER, readers, writer, calls, returned>>
    /\ UNCHANGED codecVars
    /\ UNCHANGED matrixVars
    /\ UNCHANGED registryVars
    /\ UNCHANGED conversionVars

\* let previous = *guard; the temporary read guard is dropped at the end of
\* the statement
Deref(t) ==
    /\ pc[t] = "deref"
    /\ previous' = [previous EXCEPT ![t] = NUMBER]
    /\ readers' = readers \ {t}
    /\ pc' = [pc EXCEPT ![t] = "write"]
    /\ UNCHANGED <<NUMBER, writer, calls, returned>>
    /\ UNCHANGED codecVars
    /\ UNCHANGED matrixVars
    /\ UNCHANGED registryVars
    /\ UNCHANGED conversionVars

\* let mut num = NUMBER.write().unwrap()
WriteLock(t) ==
    /\ pc[t] = "write"
    /\ writer = NoThread
    /\ readers = {}
    /\ writer' = t
    /\ pc' = [pc EXCEPT ![t] = "store"]
    /\ UNCHANGED <<NUMBER, readers, previous, calls, returned>>
    /\ UNCHANGED codecVars
    /\ UNCHANGED matrixVars
    /\ UNCHANGED registryVars
    /\ UNCHANGED conversionVars

\* a store of the value read, without the increment
Store_stale(t) ==
    /\ pc[t] = "store"
    /\ NUMBER' = previous[t]
    /\ pc' = [pc EXCEPT ![t] = "return"]
    /\ UNCHANGED <<readers, writer, previous, calls, returned>>
    /\ UNCHANGED codecVars
    /\ UNCHANGED matrixVars
    /\ UNCHANGED registryVars
    /\ UNCHANGED conversionVars

\* *num = previous + 1 (a u64; at most MaxThreads * MaxCalls here)
Store(t) ==
    /\ pc[t] = "store"
    /\ NUMBER' = previous[t] + 1
    /\ pc' = [pc EXCEPT ![t] = "return"]
    /\ UNCHANGED <<readers, writer, previous, calls, returned>>
    /\ UNCHANGED codecVars
    /\ UNCHANGED matrixVars
    /\ UNCHANGED registryVars
    /\ UNCHANGED conversionVars

\* *num is returned and the write guard dropped
Return(t) ==
    /\ pc[t] = "return"
    /\ returned' = Append(returned, NUMBER)
    /\ writer' = NoThread
    /\ pc' = [pc EXCEPT ![t] = "idle"]
    /\ UNCHANGED <<NUMBER, readers, previous, calls>>
    /\ UNCHANGED codecVars
    /\ UNCHANGED matrixVars
    /\ UNCHANGED registryVars
    /\ UNCHANGED conversionVars

NextIncrement ==
    \E t \in Threads :
        \/ Call(t)
        \/ ReadLock(t)
        \/ Deref(t)
        \/ WriteLock(t)
        \/ Store(t)
        \/ Return(t)

SpecIncrement == InitIncrement /\ [][NextIncrement]_vars

----------------------------------------------------------------------------
\* Properties.

KnownTags == {ID(T) : T \in Types}
TypeOfTag(n) == CHOOSE T \in Types : ID(T) = n

\* the variant of enum Messages that holds a T
VariantOf(T) ==
    CASE T = "WampError" -> "Error"
      [] T = "WampResult" -> "Result"
      [] OTHER -> T

HasPayload(m) == m.type \in PayloadTypes
HasDetails(m) == "details" \in DOMAIN m \/ "options" \in DOMAIN m
DetailsOf(m) == IF "details" \in DOMAIN m THEN m.details ELSE m.options

\* m as the peer sees it: the empty array stands where args was null and
\* kwargs is set
Substituted(m) ==
    IF HasPayload(m) /\ is_null(m.args) /\ ~is_null(m.kwargs)
    THEN [m EXCEPT !.args = Arr(0)]
    ELSE m

Serialized == IsSet(encoded)
Received == IsSet(encoded) /\ IsSet(decoded)
Deserialized == ~IsSet(encoded) /\ IsSet(decoded)
Dispatched == IsSet(parsed)

Trailing(args, kwargs) ==
    IF is_null(kwargs)
    THEN IF is_null(args) THEN <<>> ELSE <<args>>
    ELSE IF is_null(args) THEN <<Arr(0), kwargs>> ELSE <<args, kwargs>>

\* C2: for the types with trailing payload fields, a successful encode emits
\* after the required fields nothing when args and kwargs are null, args alone
\* when only args is set, and args (the empty array if it was null) followed
\* by kwargs when kwargs is set; kwargs is never emitted without an array
\* immediately before it.
C2_TrailingFields ==
    (Serialized /\ encoded.ok /\ HasPayload(msg)) =>
        LET r == Required(msg.type)
            w == encoded.val
        IN /\ Len(w) >= r
           /\ SubSeq(w, r + 1, Len(w)) = Trailing(msg.args, msg.kwargs)
           /\ \A i \in (r + 1)..Len(w) :
                  is_object(w[i]) => (i = r + 2 /\ is_array(w[i - 1]))

C2_Witness ==
    /\ Serialized
    /\ encoded.ok
    /\ HasPayload(msg)
    /\ is_null(msg.args)
    /\ is_object(msg.kwargs)
    /\ Len(encoded.val) = Required(msg.type) + 2
    /\ encoded.val[Required(msg.type) + 1] = Arr(0)

AllIdle == \A t \in Threads : pc[t] = "idle"

\* C3 (as claimed): once every increment() call issued by the concurrent
\* callers has returned, the N returned values are exactly the integers 1..N,
\* pairwise distinct.
C3_DistinctNoGap ==
    AllIdle => {returned[i] : i \in 1..Len(returned)} = 1..Len(returned)

\* C4: for a frame whose first element is a known tag, the Messages
\* deserializer returns the variant of that tag wrapping exactly what the
\* per-type decoder returns for the frame, and fails exactly when that
\* decoder fails.
C4_DispatchKnown ==
    (Dispatched /\ wire # <<>> /\ as_u64(wire[1]) # <<>>
                /\ wire[1].v \in KnownTags) =>
        LET T == TypeOfTag(wire[1].v)
            r == deserialize(T, wire)
        IN /\ parsed.ok = r.ok
           /\ r.ok => /\ parsed.val.variant = VariantOf(T)
                      /\ parsed.val.value = r.val

C4_Witness ==
    /\ Dispatched
    /\ parsed.ok
    /\ parsed.val.variant = "Error"
    /\ wire[1] = U(WampError_ID)
    /\ Len(wire) = 7

\* C5: for a frame whose first element is an unsigned integer that is no
\* known tag, the Messages deserializer succeeds with the Extension variant
\* holding the whole frame, element for element.
C5_UnknownTagExtension ==
    (Dispatched /\ wire # <<>> /\ as_u64(wire[1]) # <<>>
                /\ wire[1].v \notin KnownTags) =>
        /\ parsed.ok
        /\ parsed.val.variant = "Extension"
        /\ parsed.val.value = wire

C5_Witness ==
    /\ Dispatched
    /\ parsed.ok
    /\ parsed.val.variant = "Extension"
    /\ Len(parsed.val.value) >= 3
    /\ wire[1] = U(Yield_ID + 1)

\* C6 (as claimed): for every message the Messages deserializer returns for a
\* frame, id() is the frame's leading tag.
C6_IdIsTag ==
    (Len(ident) = 1) => ident[1] = wire[1].v

\* C7 (as claimed): a frame decoded as a type with trailing payload fields is
\* rejected when its args position holds a value that is neither an array nor
\* null, or its kwargs position a value that is neither a map nor null.
C7_ShapeRejected ==
    (Deserialized /\ attempt \in PayloadTypes) =>
        LET r == Required(attempt) IN
        (\/ (Len(wire) >= r + 1 /\ ~is_array(wire[r + 1]) /\ ~is_null(wire[r + 1]))
         \/ (Len(wire) >= r + 2 /\ ~is_object(wire[r + 2]) /\ ~is_null(wire[r + 2])))
            => ~decoded.ok

\* C8 (as claimed): a details or options field is map-shaped in every
\* successful encode output.
C8_DetailsMapShaped ==
    (Serialized /\ encoded.ok /\ HasDetails(msg)) => is_object(DetailsOf(msg))

\* C9: decoding a frame as a type fails whenever its first element is not
\* that type's tag; when the first element is another unsigned integer the
\* error is the tag mismatch naming the type, the actual and the expected tag,
\* whatever the later elements are.
C9_TagMismatch ==
    (Deserialized /\ wire # <<>> /\ wire[1] # U(ID(attempt))) =>
        /\ ~decoded.ok
        /\ as_u64(wire[1]) # <<>> =>
               decoded.err = [kind |-> "TagMismatch", msg |-> attempt,
                              actual |-> wire[1].v, expected |-> ID(attempt)]

C9_Witness ==
    /\ Deserialized
    /\ attempt = "Call"
    /\ wire = <<U(Cancel_ID), Null>>
    /\ decoded.err.kind = "TagMismatch"
    /\ decoded.err.actual = 49
    /\ decoded.err.expected = 48

\* a frame that some accepted frame of type T extends
PrefixOfAccepted(T, w) ==
    \E rest \in [1..(Required(T) - Len(w)) -> FrameValues] :
        deserialize(T, w \o rest).ok

\* C10: decoding a frame that has fewer elements than the required fields of
\* the attempted type returns no message, and the error is the missing-field
\* error whenever the elements present are acceptable (the decoder reaches
\* the end of the frame).
C10_MissingField ==
    (Deserialized /\ Len(wire) < Required(attempt)) =>
        /\ ~decoded.ok
        /\ PrefixOfAccepted(attempt, wire) => decoded.err.kind = "MissingField"

C10_Witness ==
    /\ Deserialized
    /\ attempt = "Hello"
    /\ wire = <<U(Hello_ID), Str(1)>>
    /\ ~decoded.ok
    /\ decoded.err.kind = "MissingField"

\* the required elements of the frame w followed by both payload elements
WithPayload(T, w) == SubSeq(w, 1, Required(T)) \o <<Arr(0), Obj(0)>>

\* C11: a frame of a type with trailing payload fields that ends before the
\* args position, or before the kwargs position, is accepted whenever the
\* same frame carrying both payload elements is accepted, and the fields of
\* the absent elements are null in the decoded message, never an empty array
\* or an empty map.
C11_AbsentIsNull ==
    (Deserialized /\ attempt \in PayloadTypes
                  /\ Len(wire) \in {Required(attempt), Required(attempt) + 1}) =>
        /\ (/\ deserialize(attempt, WithPayload(attempt, wire)).ok
            /\ Len(wire) > Required(attempt) =>
                   (is_array(wire[Len(wire)]) \/ is_object(wire[Len(wire)])))
               => decoded.ok
        /\ decoded.ok =>
               /\ is_null(decoded.val.kwargs)
               /\ Len(wire) = Required(attempt) => is_null(decoded.val.args)

C11_Witness ==
    /\ Deserialized
    /\ attempt = "Call"
    /\ wire = <<U(Call_ID), U(FrameUint), Obj(0), Str(1)>>
    /\ decoded.ok
    /\ is_null(decoded.val.args)
    /\ is_null(decoded.val.kwargs)

\* the field names of struct T
FieldsOf(T) == DOMAIN (CHOOSE m \in Struct(T) : TRUE) \ {"type"}

\* C12: for a frame whose first element is a known tag and which that type's
\* decoder cannot accept (it is shorter than the required fields, or longer
\* than all the fields, or the decoder rejects an element), the Messages
\* deserializer returns an error, never an Extension; and a message it does
\* return for a known tag has every field of its struct.
C12_AllOrNothing ==
    (Dispatched /\ wire # <<>> /\ as_u64(wire[1]) # <<>>
                /\ wire[1].v \in KnownTags) =>
        LET T == TypeOfTag(wire[1].v) IN
        /\ (\/ Len(wire) < Required(T)
            \/ Len(wire) > Elements(T)
            \/ ~deserialize(T, wire).ok) => ~parsed.ok
        /\ parsed.ok =>
               /\ parsed.val.variant # "Extension"
               /\ DOMAIN parsed.val.value = FieldsOf(T) \cup {"type"}

C12_Witness ==
    /\ Dispatched
    /\ wire = <<U(Call_ID), U(FrameUint), Arr(0), Str(1)>>
    /\ ~parsed.ok
    /\ parsed.err.kind = "ShapeViolation"

\* C13: the Messages deserializer returns no message but its structural
\* error for the empty frame and for every frame whose first element is not
\* an unsigned integer (a string, a negative number, a map, null, an array).
C13_StructuralError ==
    (Dispatched /\ (wire = <<>> \/ wire[1].k # "uint")) =>
        /\ ~parsed.ok
        /\ parsed.err.kind = "Structural"
        /\ wire = <<>> => parsed.err = Custom("Structural", "value")

C13_Witness ==
    /\ Dispatched
    /\ Len(wire) = 3
    /\ wire[1] = Obj(0)
    /\ ~parsed.ok
    /\ parsed.err = Custom("Structural", "")

Reencoded == msg = NoMsg /\ decoded.ok /\ IsSet(encoded)

\* C14 (as claimed): for every frame a per-type decoder accepts, encoding the
\* decoded message succeeds and yields the frame again, element for element.
C14_ReencodeIdentity ==
    Reencoded => (encoded.ok /\ encoded.val = wire)

\* C15 (as claimed): a frame of a type with trailing payload fields whose
\* required elements are acceptable, and which carries null in the args
\* position or in the kwargs position (any other payload element being an
\* array for args, a map for kwargs), is accepted, and the decoded message
\* has null in the field of the null element.
C15_ExplicitNull ==
    (Deserialized /\ attempt \in PayloadTypes) =>
        LET r == Required(attempt) IN
        (/\ Len(wire) \in {r + 1, r + 2}
         /\ deserialize(attempt, WithPayload(attempt, wire)).ok
         /\ is_null(wire[r + 1]) \/ is_array(wire[r + 1])
         /\ Len(wire) = r + 2 => (is_null(wire[r + 2]) \/ is_object(wire[r + 2]))
         /\ \E i \in (r + 1)..Len(wire) : is_null(wire[i]))
            => /\ decoded.ok
               /\ decoded.val.args = wire[r + 1]
               /\ decoded.val.kwargs = IF Len(wire) = r + 2 THEN wire[r + 2] ELSE Null

\* the required fields of struct T in the order of their declaration
RequiredFields(T) ==
    CASE T = "Hello" -> <<"realm", "details">>
      [] T = "Welcome" -> <<"session", "details">>
      [] T = "Abort" -> <<"details", "reason">>
      [] T = "Challenge" -> <<"authmethod", "details">>
      [] T = "Authenticate" -> <<"signature", "details">>
      [] T = "Goodbye" -> <<"details", "reason">>
      [] T = "WampError" -> <<"event", "request_id", "details", "error">>
      [] T = "Publish" -> <<"request_id", "options", "topic">>
      [] T = "Published" -> <<"request_id", "publication">>
      [] T = "Subscribe" -> <<"request_id", "options", "topic">>
      [] T = "Subscribed" -> <<"request_id", "subscription">>
      [] T = "Unsubscribe" -> <<"request_id", "subscription">>
      [] T = "Unsubscribed" -> <<"request_id">>
      [] T = "Event" -> <<"subscription", "publication", "details">>
      [] T = "Call" -> <<"request_id", "options", "procedure">>
      [] T = "Cancel" -> <<"request_id", "options">>
      [] T = "WampResult" -> <<"request_id", "details">>
      [] T = "Register" -> <<"request_id", "options", "procedure">>
      [] T = "Registered" -> <<"request_id", "registration">>
      [] T = "Unregister" -> <<"request_id", "registration">>
      [] T = "Unregistered" -> <<"request_id">>
      [] T = "Invocation" -> <<"request_id", "registration", "details">>
      [] T = "Interrupt" -> <<"request_id", "options">>
      [] T = "Yield" -> <<"request_id", "options">>

\* the wire value of a required field: a String field is a string, a Value
\* field is itself, the Error event is the tag of its request type and every
\* other field is a u64
WireOf(field, v) ==
    CASE field \in {"realm", "reason", "authmethod", "signature", "error",
                    "topic", "procedure"} -> Str(v)
      [] field \in {"details", "options"} -> v
      [] field = "event" -> U(WampErrorEvent_repr(v))
      [] OTHER -> U(v)

\* C16: every successful encode of a message of a known type yields a frame
\* whose first element is the type's tag and whose next elements are the
\* required fields of the struct in their declared order; the frame of a type
\* without payload fields ends there.
C16_TagAndFieldOrder ==
    (Serialized /\ encoded.ok) =>
        LET fields == RequiredFields(msg.type)
            w == encoded.val
        IN /\ Len(w) >= 1 + Len(fields)
           /\ w[1] = U(ID(msg.type))
           /\ \A i \in 1..Len(fields) : w[i + 1] = WireOf(fields[i], msg[fields[i]])
           /\ ~HasPayload(msg) => Len(w) = 1 + Len(fields)

C16_Witness ==
    /\ Serialized
    /\ encoded.ok
    /\ msg.type = "Event"
    /\ SubSeq(encoded.val, 1, 4) =
           <<U(Event_ID), U(msg.subscription), U(msg.publication), msg.details>>
    /\ Len(encoded.val) = 6

----------------------------------------------------------------------------
\* Callers of factories::increment() that never overlap: a call starts only
\* when no other call is in progress.

SequentialCall(t) == AllIdle /\ Call(t)

NextSequential ==
    \E t \in Threads :
        \/ SequentialCall(t)
        \/ ReadLock(t)
        \/ Deref(t)
        \/ WriteLock(t)
        \/ Store(t)
        \/ Return(t)

SpecSequential == InitIncrement /\ [][NextSequential]_vars

\* C17: when the increment() calls never overlap, the k-th call returns k (the
\* first one 1) and leaves k in the counter.
C17_KthReturnsK ==
    /\ \A k \in 1..Len(returned) : returned[k] = k
    /\ AllIdle => NUMBER = Len(returned)

C17_Witness ==
    /\ AllIdle
    /\ Len(returned) = MaxThreads * MaxCalls
    /\ returned[1] = 1
    /\ returned[Len(returned)] = MaxThreads * MaxCalls

\* C18 (as claimed): the value of the counter never decreases from one state
\* to the next, whatever the interleaving of the concurrent callers.
C18_Monotonic == [][NUMBER' >= NUMBER]_vars

----------------------------------------------------------------------------
\* The constructor macros of the request types, called one after another by
\* one thread. Every macro arm ends in the arm that takes all the fields, which
\* builds the struct with request_id: $crate::factories::increment().

\* the payloads handed to a macro: the default and an empty container
MacroArgs == {Null, Arr(0)}
MacroKwargs == {Null, Obj(0)}

InitConstruct ==
    /\ msg = NoMsg
    /\ encoded = None
    /\ attempt = NoType
    /\ wire = <<>>
    /\ decoded = None
    /\ parsed = None
    /\ ident = NoIdent
    /\ reencoded = None
    /\ CounterInit
    /\ MatrixInit
    /\ RegistryInit
    /\ ConversionInit

\* factories::increment() run to its end by the only running thread: it reads
\* previous = NUMBER, stores previous + 1 and returns what it stored
increment(id) ==
    /\ NUMBER < MaxBuilt
    /\ id = NUMBER + 1
    /\ NUMBER' = id
    /\ returned' = Append(returned, id)
    /\ UNCHANGED <<readers, writer, pc, previous, calls>>
    /\ UNCHANGED <<encoded, attempt, wire, decoded, parsed, ident, reencoded>>
    /\ UNCHANGED matrixVars
    /\ UNCHANGED registryVars
    /\ UNCHANGED conversionVars

\* a macro that numbers every message 1 without calling increment()
subscribe_macro_unstamped(topic, options) ==
    /\ NUMBER < MaxBuilt
    /\ msg' = [type |-> "Subscribe", topic |-> topic, options |-> options,
               request_id |-> 1]
    /\ returned' = Append(returned, 1)
    /\ UNCHANGED <<NUMBER, readers, writer, pc, previous, calls>>
    /\ UNCHANGED <<encoded, attempt, wire, decoded, parsed, ident, reencoded>>
    /\ UNCHANGED matrixVars
    /\ UNCHANGED registryVars
    /\ UNCHANGED conversionVars

\* call!(procedure, options, args, kwargs)
call_macro(procedure, options, args, kwargs) ==
    \E id \in 1..MaxBuilt :
        /\ increment(id)
        /\ msg' = [type |-> "Call", request_id |-> id, options |-> options,
                   procedure |-> procedure, args |-> args, kwargs |-> kwargs]

\* publish!(topic, options, args, kwargs)
publish_macro(topic, options, args, kwargs) ==
    \E id \in 1..MaxBuilt :
        /\ increment(id)
        /\ msg' = [type |-> "Publish", request_id |-> id, options |-> options,
                   topic |-> topic, args |-> args, kwargs |-> kwargs]

\* subscribe!(topic, options)
subscribe_macro(topic, options) ==
    \E id \in 1..MaxBuilt :
        /\ increment(id)
        /\ msg' = [type |-> "Subscribe", topic |-> topic, options |-> options,
                   request_id |-> id]

\* register!(procedure, options)
register_macro(procedure, options) ==
    \E id \in 1..MaxBuilt :
        /\ increment(id)
        /\ msg' = [type |-> "Register", procedure |-> procedure,
                   options |-> options, request_id |-> id]

\* unregister!(registration)
unregister_macro(registration) ==
    \E id \in 1..MaxBuilt :
        /\ increment(id)
        /\ msg' = [type |-> "Unregister", request_id |-> id,
                   registration |-> registration]

\* unsubscribe!(subscription)
unsubscribe_macro(subscription) ==
    \E id \in 1..MaxBuilt :
        /\ increment(id)
        /\ msg' = [type |-> "Unsubscribe", request_id |-> id,
                   subscription |-> subscription]

\* invocation!(registration, details, args, kwargs)
invocation_macro(registration, details, args, kwargs) ==
    \E id \in 1..MaxBuilt :
        /\ increment(id)
        /\ msg' = [type |-> "Invocation", request_id |-> id, details |-> details,
                   registration |-> registration, args |-> args, kwargs |-> kwargs]

NextConstruct ==
    \/ \E procedure \in Strs, options \in Values, args \in MacroArgs, kwargs \in MacroKwargs :
           call_macro(procedure, options, args, kwargs)
    \/ \E topic \in Strs, options \in Values, args \in MacroArgs, kwargs \in MacroKwargs :
           publish_macro(topic, options, args, kwargs)
    \/ \E topic \in Strs, options \in Values : subscribe_macro(topic, options)
    \/ \E procedure \in Strs, options \in Values : register_macro(procedure, options)
    \/ \E registration \in Ids : unregister_macro(registration)
    \/ \E subscription \in Ids : unsubscribe_macro(subscription)
    \/ \E registration \in Ids, details \in Values, args \in MacroArgs, kwargs \in MacroKwargs :
           invocation_macro(registration, details, args, kwargs)

SpecConstruct == InitConstruct /\ [][NextConstruct]_vars

Built == msg # NoMsg

\* C19: every construction of a Call, Publish, Subscribe, Register, Unregister,
\* Unsubscribe or Invocation by its macro advances the counter by exactly one
\* and stores the value increment() returned as the request_id of the message,
\* and in a run of one thread each message has a greater request_id than the
\* message built before it.
C19_FreshRequestId ==
    [][/\ NUMBER' = NUMBER + 1
       /\ Len(returned') = Len(returned) + 1
       /\ msg'.request_id = returned'[Len(returned')]
       /\ msg'.request_id = NUMBER'
       /\ Built => msg'.request_id > msg.request_id]_vars

C19_Witness ==
    /\ Built
    /\ msg.type = "Invocation"
    /\ msg.request_id = MaxBuilt
    /\ NUMBER = MaxBuilt
    /\ returned = [i \in 1..MaxBuilt |-> i]

----------------------------------------------------------------------------
\* The role-direction matrix: a peer looks up T::direction(role).

\* a matrix that allows no role anything
direction_closed(T, role) == [receives |-> FALSE, sends |-> FALSE]

\* fn direction(role: Roles) -> &'static MessageDirection of impl WampMessage
\* for T
direction(T, role) ==
    CASE T = "Hello" ->
            [receives |-> role \in {"Dealer", "Broker"},
             sends |-> role \in {"Callee", "Caller", "Publisher", "Subscriber"}]
      [] T = "Welcome" ->
            [receives |-> role \in {"Callee", "Caller", "Publisher", "Subscriber"},
             sends |-> role \in {"Dealer", "Broker"}]
      [] T = "Abort" ->
            [receives |-> role \in {"Callee", "Caller", "Publisher", "Subscriber"},
             sends |-> role \in {"Dealer", "Broker"}]
      [] T = "Challenge" ->
            [receives |-> role \in {"Callee", "Caller", "Publisher", "Subscriber"},
             sends |-> role \in {"Dealer", "Broker"}]
      [] T = "Authenticate" ->
            [receives |-> role \in {"Dealer", "Broker"},
             sends |-> role \in {"Callee", "Caller", "Publisher", "Subscriber"}]
      [] T = "Goodbye" ->
            [receives |-> role \in {"Callee", "Caller", "Publisher", "Subscriber", "Dealer", "Broker"},
             sends |-> role \in {"Callee", "Caller", "Publisher", "Dealer", "Broker"}]
      [] T = "WampError" ->
            [receives |-> role \in {"Callee", "Caller", "Publisher", "Subscriber", "Dealer"},
             sends |-> role \in {"Callee", "Dealer", "Broker"}]
      [] T = "Publish" ->
            [receives |-> role \in {"Broker"},
             sends |-> role \in {"Caller", "Publisher"}]
      [] T = "Published" ->
            [receives |-> role \in {"Callee", "Publisher"},
             sends |-> role \in {"Broker"}]
      [] T = "Subscribe" ->
            [receives |-> role \in {"Broker"},
             sends |-> role \in {"Subscriber"}]
      [] T = "Subscribed" ->
            [receives |-> role \in {"Subscriber"},
             sends |-> role \in {"Broker"}]
      [] T = "Unsubscribe" ->
            [receives |-> role \in {"Broker"},
             sends |-> role \in {"Subscriber"}]
      [] T = "Unsubscribed" ->
            [receives |-> role \in {"Subscriber"},
             sends |-> role \in {"Broker"}]
      [] T = "Event" ->
            [receives |-> role \in {"Subscriber"},
             sends |-> role \in {"Broker"}]
      [] T = "Call" ->
            [receives |-> role \in {},
             sends |-> role \in {"Caller", "Dealer"}]
      [] T = "Cancel" ->
            [receives |-> role \in {},
             sends |-> role \in {"Caller", "Dealer"}]
      [] T = "WampResult" ->
            [receives |-> role \in {"Caller"},
             sends |-> role \in {"Broker"}]
      [] T = "Register" ->
            [receives |-> role \in {"Dealer"},
             sends |-> role \in {"Callee"}]
      [] T = "Registered" ->
            [receives |-> role \in {"Callee"},
             sends |-> role \in {"Dealer"}]
      [] T = "Unregister" ->
            [receives |-> role \in {"Dealer"},
             sends |-> role \in {"Callee"}]
      [] T = "Unregistered" ->
            [receives |-> role \in {"Callee"},
             sends |-> role \in {"Dealer"}]
      [] T = "Invocation" ->
            [receives |-> role \in {"Callee"},
             sends |-> role \in {"Dealer"}]
      [] T = "Interrupt" ->
            [receives |-> role \in {"Callee"},
             sends |-> role \in {"Dealer"}]
      [] T = "Yield" ->
            [receives |-> role \in {"Dealer"},
             sends |-> role \in {"Callee"}]

InitDirection ==
    /\ msg = NoMsg
    /\ encoded = None
    /\ attempt \in Types
    /\ wire = <<>>
    /\ decoded = None
    /\ parsed = None
    /\ ident = NoIdent
    /\ reencoded = None
    /\ CounterInit
    /\ peer_role \in Roles
    /\ message_direction = NoDirection
    /\ RegistryInit
    /\ ConversionInit

\* T::direction(role)
Direction ==
    /\ message_direction = NoDirection
    /\ message_direction' = direction(attempt, peer_role)
    /\ UNCHANGED <<peer_role>>
    /\ UNCHANGED codecVars
    /\ UNCHANGED counterVars
    /\ UNCHANGED registryVars
    /\ UNCHANGED conversionVars

NextDirection == Direction

SpecDirection == InitDirection /\ [][NextDirection]_vars

Looked == message_direction # NoDirection

\* C20 (as claimed): the Caller may send Call and Cancel and may receive
\* Result, Error and Interrupt.
C20_CallerMatrix ==
    (Looked /\ peer_role = "Caller") =>
        /\ attempt \in {"Call", "Cancel"} => message_direction.sends
        /\ attempt \in {"WampResult", "WampError", "Interrupt"} =>
               message_direction.receives

\* C20 (amended): the Caller may send Call and Cancel and may receive Result
\* and Error; it may neither send nor receive Interrupt, which the Callee and
\* no other role may receive.
C20_CallerMatrixAmended ==
    Looked =>
        /\ peer_role = "Caller" =>
               /\ attempt \in {"Call", "Cancel"} => message_direction.sends
               /\ attempt \in {"WampResult", "WampError"} =>
                      message_direction.receives
               /\ attempt = "Interrupt" =>
                      (~message_direction.receives /\ ~message_direction.sends)
        /\ attempt = "Interrupt" =>
               (message_direction.receives <=> peer_role = "Callee")

C20_Witness ==
    /\ Looked
    /\ peer_role = "Caller"
    /\ attempt = "Interrupt"
    /\ ~message_direction.receives

\* C21: the Callee may receive Invocation and Interrupt and may send Yield and
\* Error; the Broker may receive Publish, Subscribe and Unsubscribe and may
\* send Event, Published, Subscribed, Unsubscribed and Error.
C21_CalleeBrokerMatrix ==
    Looked =>
        /\ peer_role = "Callee" =>
               /\ attempt \in {"Invocation", "Interrupt"} =>
                      message_direction.receives
               /\ attempt \in {"Yield", "WampError"} => message_direction.sends
        /\ peer_role = "Broker" =>
               /\ attempt \in {"Publish", "Subscribe", "Unsubscribe"} =>
                      message_direction.receives
               /\ attempt \in {"Event", "Published", "Subscribed",
                               "Unsubscribed", "WampError"} =>
                      message_direction.sends

C21_Witness ==
    /\ Looked
    /\ peer_role = "Broker"
    /\ attempt = "WampError"
    /\ message_direction.sends
    /\ ~message_direction.receives

\* C22: encoding a Call, Publish, Event, Invocation, Yield, Result or Error
\* whose args is neither an array nor null, or whose kwargs is neither a map
\* nor null, fails and emits no frame.
C22_PayloadShapeOnEncode ==
    (/\ Serialized
     /\ HasPayload(msg)
     /\ \/ (~is_array(msg.args) /\ ~is_null(msg.args))
        \/ (~is_object(msg.kwargs) /\ ~is_null(msg.kwargs)))
        => (~encoded.ok /\ encoded.val = 0)

C22_Witness ==
    /\ Serialized
    /\ msg.type = "Event"
    /\ is_object(msg.details)
    /\ is_array(msg.args)
    /\ is_array(msg.kwargs)
    /\ ~encoded.ok
    /\ encoded.err.msg = "Kwargs must be Object like or Null."

----------------------------------------------------------------------------
\* id() of an Extension a caller built itself: Messages::Extension(values)
\* with any values.

\* the stored sequences: every sequence of at most MaxStored elements
MaxStored == 3

InitExtension ==
    /\ msg = NoMsg
    /\ encoded = None
    /\ attempt = NoType
    /\ wire = <<>>
    /\ decoded = None
    /\ parsed \in {Ok([variant |-> "Extension", value |-> values]) :
                      values \in SeqsUpTo(FrameValues \cup {Neg(1)}, MaxStored)}
    /\ ident = NoIdent
    /\ reencoded = None
    /\ CounterInit
    /\ MatrixInit
    /\ RegistryInit
    /\ ConversionInit

NextExtension == Id

SpecExtension == InitExtension /\ [][NextExtension]_vars

IdCalled == Len(ident) < 2

\* C23: id() of an Extension is Some of its first stored element when that
\* element is an unsigned integer, and None when the stored sequence is empty
\* or its first element is not an unsigned integer.
C23_ExtensionId ==
    (IdCalled /\ parsed.val.variant = "Extension") =>
        LET values == parsed.val.value IN
        IF values # <<>> /\ values[1].k = "uint"
        THEN ident = <<values[1].v>>
        ELSE ident = <<>>

C23_Witness ==
    /\ IdCalled
    /\ parsed.val.variant = "Extension"
    /\ Len(parsed.val.value) = 2
    /\ parsed.val.value[1] = Str(1)
    /\ ident = <<>>

----------------------------------------------------------------------------
\* Error frames: a peer decodes frames that are Error frames but for their
\* second element, and encodes what it decoded.

RequestTags == {WampErrorEvent_repr(event) : event \in WampErrorEvents}

\* second elements: the eight request tags, two unsigned integers that are
\* tags of other message types, and one value of every other JSON kind
ErrorSeconds ==
    {U(n) : n \in RequestTags \cup {WampError_ID, WampResult_ID}}
        \cup {Null, Str(1), Arr(0), Obj(0)}

ErrorFrames ==
    {<<U(WampError_ID), second, third, Obj(0), Str(1)>> \o rest :
        second \in ErrorSeconds,
        third \in {U(1), Str(1)},
        rest \in SeqsUpTo(FrameValues, 2 + MaxExtra)}

InitErrorFrame ==
    /\ msg = NoMsg
    /\ encoded = None
    /\ attempt = "WampError"
    /\ wire \in ErrorFrames
    /\ decoded = None
    /\ parsed = None
    /\ ident = NoIdent
    /\ reencoded = None
    /\ CounterInit
    /\ MatrixInit
    /\ RegistryInit
    /\ ConversionInit

SpecErrorFrame == InitErrorFrame /\ [][NextDecode]_vars

\* C24: an Error message is encoded as [8, tag of the request type it
\* answers, request_id, details, error URI, args?, kwargs?], and an Error
\* frame is decoded, as WampError or through Messages, only when its second
\* element is the tag of one of the eight request types.
C24_ErrorEventTag ==
    /\ (attempt = "WampError" /\ decoded.ok) =>
            /\ wire[2].k = "uint"
            /\ wire[2].v \in {Subscribe_ID, Unsubscribe_ID, Publish_ID,
                              Register_ID, Unregister_ID, Invocation_ID,
                              Cancel_ID, Call_ID}
            /\ WampErrorEvent_repr(decoded.val.event) = wire[2].v
    /\ (parsed.ok /\ parsed.val.variant = "Error") =>
            /\ wire[2].k = "uint"
            /\ wire[2].v \in {Subscribe_ID, Unsubscribe_ID, Publish_ID,
                              Register_ID, Unregister_ID, Invocation_ID,
                              Cancel_ID, Call_ID}
    /\ (Reencoded /\ decoded.val.type = "WampError" /\ encoded.ok) =>
            /\ Len(encoded.val) \in 5..7
            /\ encoded.val[1] = U(8)
            /\ encoded.val[2] = U(WampErrorEvent_repr(decoded.val.event))
            /\ encoded.val[3] = U(decoded.val.request_id)
            /\ encoded.val[4] = decoded.val.details
            /\ encoded.val[5] = Str(decoded.val.error)
            /\ Len(encoded.val) >= 6 => encoded.val[6] \in {decoded.val.args, Arr(0)}
            /\ Len(encoded.val) = 7 => encoded.val[7] = decoded.val.kwargs

C24_Witness ==
    /\ attempt = "WampError"
    /\ wire[2] = U(Invocation_ID)
    /\ Reencoded
    /\ encoded.ok
    /\ encoded.val[2] = U(Invocation_ID)
    /\ Len(encoded.val) = 7

----------------------------------------------------------------------------
\* Calls on the global topic registry.

InitRegistry ==
    /\ msg = NoMsg
    /\ encoded = None
    /\ attempt = NoType
    /\ wire = <<>>
    /\ decoded = None
    /\ parsed = None
    /\ ident = NoIdent
    /\ reencoded = None
    /\ CounterInit
    /\ MatrixInit
    /\ RegistryInit
    /\ ConversionInit

\* a retain that drops the first stored occurrence only
retain_first(current, topic) ==
    IF \E i \in 1..Len(current) : current[i] = topic
    THEN LET first == CHOOSE i \in 1..Len(current) :
                          /\ current[i] = topic
                          /\ \A j \in 1..(i - 1) : current[j] # topic
         IN SubSeq(current, 1, first - 1) \o SubSeq(current, first + 1, Len(current))
    ELSE current

\* current.retain(|i| i != &topic.to_string())
retain(current, topic) ==
    LET keep(i) == i # topic IN SelectSeq(current, keep)

\* TOPICS.read().unwrap().contains(&topic.to_string())
subscription_contains(topic) ==
    \E i \in 1..Len(TOPICS) : TOPICS[i] = topic

\* subscribe(topic)
subscribe(topic) ==
    /\ Len(topic_calls) < MaxTopicCalls
    /\ TOPICS' = Append(TOPICS, topic)
    /\ topic_calls' = Append(topic_calls, [op |-> "subscribe", topic |-> topic, result |-> TRUE])
    /\ UNCHANGED codecVars
    /\ UNCHANGED counterVars
    /\ UNCHANGED matrixVars
    /\ UNCHANGED conversionVars

\* unsubscribe(&topic)
unsubscribe(topic) ==
    /\ Len(topic_calls) < MaxTopicCalls
    /\ TOPICS' = retain(TOPICS, topic)
    /\ topic_calls' = Append(topic_calls, [op |-> "unsubscribe", topic |-> topic, result |-> TRUE])
    /\ UNCHANGED codecVars
    /\ UNCHANGED counterVars
    /\ UNCHANGED matrixVars
    /\ UNCHANGED conversionVars

\* a caller asks subscription_contains(&topic)
Contains(topic) ==
    /\ Len(topic_calls) < MaxTopicCalls
    /\ topic_calls' = Append(topic_calls, [op |-> "contains", topic |-> topic,
                                           result |-> subscription_contains(topic)])
    /\ UNCHANGED TOPICS
    /\ UNCHANGED codecVars
    /\ UNCHANGED counterVars
    /\ UNCHANGED matrixVars
    /\ UNCHANGED conversionVars

NextRegistry ==
    \E topic \in Topics :
        \/ subscribe(topic)
        \/ unsubscribe(topic)
        \/ Contains(topic)

SpecRegistry == InitRegistry /\ [][NextRegistry]_vars

\* subscribe(topic) is among the first n calls and no unsubscribe(topic)
\* follows the last of them
SubscribedSince(topic, n) ==
    \E i \in 1..n :
        /\ topic_calls[i].op = "subscribe"
        /\ topic_calls[i].topic = topic
        /\ \A j \in (i + 1)..n :
              ~(topic_calls[j].op = "unsubscribe" /\ topic_calls[j].topic = topic)

Occurrences(topic) == Cardinality({i \in 1..Len(TOPICS) : TOPICS[i] = topic})

\* C30: after any sequence of subscribe and unsubscribe calls,
\* subscription_contains(t) is true exactly when subscribe(t) has been called
\* since the last unsubscribe(t), in the registry now and in every answer a
\* caller got; after unsubscribe(t) no occurrence of t is stored.
C30_RegistryMembership ==
    /\ \A topic \in Topics :
          subscription_contains(topic) <=> SubscribedSince(topic, Len(topic_calls))
    /\ \A n \in 1..Len(topic_calls) :
          /\ topic_calls[n].op = "contains" =>
                (topic_calls[n].result <=> SubscribedSince(topic_calls[n].topic, n - 1))
    /\ \A topic \in Topics :
          (~SubscribedSince(topic, Len(topic_calls))) => Occurrences(topic) = 0

\* subscribed twice, unsubscribed once, asked afterwards
C30_Witness ==
    /\ Len(topic_calls) = 4
    /\ topic_calls[1] = [op |-> "subscribe", topic |-> 1, result |-> TRUE]
    /\ topic_calls[2] = [op |-> "subscribe", topic |-> 1, result |-> TRUE]
    /\ topic_calls[3] = [op |-> "unsubscribe", topic |-> 1, result |-> TRUE]
    /\ topic_calls[4] = [op |-> "contains", topic |-> 1, result |-> FALSE]
    /\ TOPICS = <<>>

----------------------------------------------------------------------------
\* Concurrent callers of increment() under a fair scheduler, with calls on
\* the topic registry in between. The registry has its own lock (TOPICS), so
\* a registry call never waits for NUMBER.

\* registry calls made while increment() calls are under way
MaxInterleaved == 1

RegistryCall ==
    /\ Len(topic_calls) < MaxInterleaved
    /\ \E topic \in Topics :
          \/ subscribe(topic)
          \/ unsubscribe(topic)
          \/ Contains(topic)

\* the steps of a thread that is inside increment()
Running(t) ==
    \/ ReadLock(t)
    \/ Deref(t)
    \/ WriteLock(t)
    \/ Store(t)
    \/ Return(t)

NextIncrementFair ==
    \/ \E t \in Threads : Call(t)
    \/ \E t \in Threads : Running(t)
    \/ RegistryCall

\* a thread that can take its next step is eventually scheduled; a lock that
\* stays free is eventually given to a thread that waits for it
SpecIncrementFair ==
    /\ InitIncrement
    /\ [][NextIncrementFair]_vars
    /\ \A t \in Threads : WF_vars(Running(t))

\* C25: under fair scheduling every call to increment() eventually returns,
\* whatever the number of concurrent callers and the registry calls made in
\* between.
C25_EveryCallReturns ==
    \A t \in Threads : (pc[t] # "idle") ~> (pc[t] = "idle")

\* every thread has made all its calls, all have returned, and a registry
\* call was made in between
C25_Witness ==
    /\ \A t \in Threads : calls[t] = MaxCalls /\ pc[t] = "idle"
    /\ Len(returned) = MaxThreads * MaxCalls
    /\ topic_calls # <<>>

----------------------------------------------------------------------------
\* The constructor macros called with their mandatory arguments only, and
\* the message serialized afterwards.

\* the types whose macro numbers the message with increment()
RequestMacroTypes ==
    {"Call", "Publish", "Subscribe", "Register", "Unregister", "Unsubscribe",
     "Invocation"}

\* the first arm of the macro of T: serde_json::json!({}) is Obj(0),
\* serde_json::Value::Null is Null
MandatoryOnly(T) ==
    CASE T = "Hello" -> {[type |-> T, realm |-> realm, details |-> Obj(0)] : realm \in Strs}
      [] T = "Welcome" -> {[type |-> T, session |-> session, details |-> Null] : session \in Ids}
      [] T = "Abort" -> {[type |-> T, details |-> Obj(0), reason |-> reason] : reason \in Strs}
      [] T = "Challenge" ->
            {[type |-> T, authmethod |-> authmethod, details |-> Obj(0)] : authmethod \in Strs}
      [] T = "Authenticate" ->
            {[type |-> T, signature |-> signature, details |-> Obj(0)] : signature \in Strs}
      [] T = "Goodbye" -> {[type |-> T, details |-> Obj(0), reason |-> reason] : reason \in Strs}
      [] T = "WampError" ->
            {[type |-> T, event |-> event, request_id |-> request_id,
              details |-> Obj(0), error |-> error, args |-> Null, kwargs |-> Null] :
                event \in WampErrorEvents, request_id \in Ids, error \in Strs}
      [] T = "Published" ->
            {[type |-> T, request_id |-> request_id, publication |-> publication] :
                request_id \in Ids, publication \in Ids}
      [] T = "Subscribed" ->
            {[type |-> T, request_id |-> request_id, subscription |-> subscription] :
                request_id \in Ids, subscription \in Ids}
      [] T = "Unsubscribed" -> {[type |-> T, request_id |-> request_id] : request_id \in Ids}
      [] T = "Event" ->
            {[type |-> T, subscription |-> subscription, publication |-> publication,
              details |-> Obj(0), args |-> Null, kwargs |-> Null] :
                subscription \in Ids, publication \in Ids}
      [] T = "Cancel" ->
            {[type |-> T, request_id |-> request_id, options |-> Obj(0)] : request_id \in Ids}
      [] T = "WampResult" ->
            {[type |-> T, args |-> Null, request_id |-> request_id,
              details |-> Obj(0), kwargs |-> Null] : request_id \in Ids}
      [] T = "Registered" ->
            {[type |-> T, request_id |-> request_id, registration |-> registration] :
                request_id \in Ids, registration \in Ids}
      [] T = "Unregistered" -> {[type |-> T, request_id |-> request_id] : request_id \in Ids}
      [] T = "Interrupt" ->
            {[type |-> T, request_id |-> request_id, options |-> Obj(0)] : request_id \in Ids}
      [] T = "Yield" ->
            {[type |-> T, args |-> Null, request_id |-> request_id,
              options |-> Obj(0), kwargs |-> Null] : request_id \in Ids}

InitDefaults ==
    /\ msg = NoMsg
    /\ encoded = None
    /\ attempt = NoType
    /\ wire = <<>>
    /\ decoded = None
    /\ parsed = None
    /\ ident = NoIdent
    /\ reencoded = None
    /\ CounterInit
    /\ MatrixInit
    /\ RegistryInit
    /\ ConversionInit

\* a macro of a type that takes its request id from the caller
PlainDefault ==
    /\ ~IsSet(encoded)
    /\ \E T \in Types \ RequestMacroTypes : msg' \in MandatoryOnly(T)
    /\ UNCHANGED <<encoded, attempt, wire, decoded, parsed, ident, reencoded>>
    /\ UNCHANGED counterVars
    /\ UNCHANGED matrixVars
    /\ UNCHANGED registryVars
    /\ UNCHANGED conversionVars

\* a macro of a request type: call!(procedure), publish!(topic), ...
RequestDefault ==
    /\ ~IsSet(encoded)
    /\ \/ \E procedure \in Strs : call_macro(procedure, Obj(0), Null, Null)
       \/ \E topic \in Strs : publish_macro(topic, Obj(0), Null, Null)
       \/ \E topic \in Strs : subscribe_macro(topic, Obj(0))
       \/ \E procedure \in Strs : register_macro(procedure, Obj(0))
       \/ \E registration \in Ids : unregister_macro(registration)
       \/ \E subscription \in Ids : unsubscribe_macro(subscription)
       \/ \E registration \in Ids : invocation_macro(registration, Obj(0), Null, Null)

NextDefaults == PlainDefault \/ RequestDefault \/ Serialize

SpecDefaults == InitDefaults /\ [][NextDefaults]_vars

\* C28 (as claimed): every message a constructor macro builds from its
\* mandatory arguments alone encodes successfully, the one welcome!(session)
\* builds like the one hello!(realm) builds.
C28_DefaultsEncode ==
    Serialized => encoded.ok

\* what the check of C28 finds: the defaults of every macro but welcome!
\* encode, and the default of welcome! does not
C28_OnlyWelcomeFails ==
    Serialized => (encoded.ok <=> msg.type # "Welcome")

----------------------------------------------------------------------------
\* T::from(message) for a Messages value and a struct type T that
\* try_from_messages! was called for.

\* try_from_messages!(Abort); ... try_from_messages!(Yield);
Convertible == Types \ {"WampError", "WampResult"}

InitConvert ==
    /\ msg = NoMsg
    /\ encoded = None
    /\ attempt \in Convertible
    /\ wire = <<>>
    /\ decoded = None
    /\ \E T \in {attempt, "Hello"} :
          parsed \in {Ok([variant |-> T, value |-> m]) : m \in Struct(T)}
    /\ ident = NoIdent
    /\ reencoded = None
    /\ CounterInit
    /\ MatrixInit
    /\ RegistryInit
    /\ ConversionInit


\* T::from(v) is entered: fn from(v: Messages) -> T
from_Messages ==
    /\ parsed.ok
    /\ conversion = NoConversion
    /\ conversion' = [depth |-> 1, outcome |-> "running"]
    /\ UNCHANGED codecVars
    /\ UNCHANGED counterVars
    /\ UNCHANGED matrixVars
    /\ UNCHANGED registryVars

\* the body, v.into(): Into<T> for Messages is the blanket impl over
\* T: From<Messages>, so it enters T::from(v) again on a new stack frame
into ==
    /\ conversion.outcome = "running"
    /\ conversion.depth < MaxStack
    /\ conversion' = [conversion EXCEPT !.depth = @ + 1]
    /\ UNCHANGED codecVars
    /\ UNCHANGED counterVars
    /\ UNCHANGED matrixVars
    /\ UNCHANGED registryVars

\* no room for another frame: the thread overflows its stack and the
\* process is aborted
stack_overflow ==
    /\ conversion.outcome = "running"
    /\ conversion.depth = MaxStack
    /\ conversion' = [conversion EXCEPT !.outcome = "overflow"]
    /\ UNCHANGED codecVars
    /\ UNCHANGED counterVars
    /\ UNCHANGED matrixVars
    /\ UNCHANGED registryVars

NextConvert == from_Messages \/ into \/ stack_overflow

\* the converting thread keeps running
SpecConvert == InitConvert /\ [][NextConvert]_vars /\ WF_vars(NextConvert)

\* C29 (as claimed): a conversion of a Messages value into the struct of its
\* own variant terminates and yields the wrapped struct.
C29_ConversionYields ==
    (conversion.outcome = "running" /\ parsed.val.variant = attempt)
        ~> (conversion = [depth |-> 0, outcome |-> "yielded"])

\* what the check of C29 finds: no conversion ever returns, each one ends in
\* a stack overflow
C29_NeverReturns ==
    /\ conversion.outcome \in {"none", "running", "overflow"}
    /\ conversion.outcome = "running" => conversion.depth \in 1..MaxStack

----------------------------------------------------------------------------
\* The matrix across the client/router partition.

ClientRoles == {"Callee", "Caller", "Publisher", "Subscriber"}
RouterRoles == {"Dealer", "Broker"}

\* C27 (as claimed): a message type that some client-side role may send may
\* be received by some router-side role, and a message type that some
\* router-side role may send may be received by some client-side role.
C27_Complementary ==
    (Looked /\ message_direction.sends) =>
        /\ peer_role \in ClientRoles =>
               \E router \in RouterRoles : direction(attempt, router).receives
        /\ peer_role \in RouterRoles =>
               \E client \in ClientRoles : direction(attempt, client).receives

\* what the check of C27 finds: Call and Cancel are the only types some role
\* may send and no role on the other side may receive
C27_AllButCallAndCancel ==
    (Looked /\ message_direction.sends /\ attempt \notin {"Call", "Cancel"}) =>
        /\ peer_role \in ClientRoles =>
               \E router \in RouterRoles : direction(attempt, router).receives
        /\ peer_role \in RouterRoles =>
               \E client \in ClientRoles : direction(attempt, client).receives

----------------------------------------------------------------------------
\* The decode/encode cycle on a frame a serializer produced.

EncodedAgain == IsSet(reencoded)

\* C26 (as claimed): for every message that encodes successfully, decoding
\* the encoded frame succeeds and encoding the decoded message yields the
\* frame again, also when kwargs is set and args is null.
C26_StableCycle ==
    /\ Received => decoded.ok
    /\ EncodedAgain => (reencoded.ok /\ reencoded.val = encoded.val)

\* what the check of C26 finds: whenever the encoded frame is decoded, the
\* cycle ends in the same frame, and the frame is not decoded exactly when
\* the message has a details or options field that is not a map
C26_StableWhenDecoded ==
    /\ EncodedAgain => (reencoded.ok /\ reencoded.val = encoded.val)
    /\ Received => (decoded.ok <=> ~(HasDetails(msg) /\ ~is_object(DetailsOf(msg))))

====
